---- MODULE Spec2Model ----
(***************************************************************************)
(* Telemetry pipeline of the model-validation test harness:                *)
(*   - conftest.py: the patched requests.Session.post/get                  *)
(*     (_capture_and_call), TrackedSession, the global fallback buffer     *)
(*     with its lock, the pytest_runtest_makereport hook that drains both  *)
(*     buffers into one test record, and pytest_sessionfinish;             *)
(*   - scripts/generate_detailed_report.py: _call_key and the              *)
(*     deduplication loop of the renderer.                                 *)
(* Thread 0 is the pytest main thread; threads 1..NumWorkers are worker    *)
(* threads that tests start (ThreadPoolExecutor in the load tests).        *)
(***************************************************************************)
EXTENDS Integers, Sequences, FiniteSets, TLC

\* ------------------------------------------------------------------ bounds
NumTests == 2
NumWorkers == 2
MaxCalls == 2
MaxDedupLen == 3
MaxAsserts == 2
MaxRecords == 3
MaxJunit == 2
MaxRuns == 2
MaxWords == 3

\* --------------------------------------------------------- program constants
TextCap == 500

None == "None"

\* JSON values as the harness handles them: Python None / JSON null, a dict
\* (the sequence of its keys in insertion order, keys being numbers) and a
\* string (named by its text).
Null == [t |-> "null", v |-> << >>]

Dict(keys) == [t |-> "dict", v |-> keys]

Str(s) == [t |-> "str", v |-> s]
Workers == 1..NumWorkers
Threads == 0..NumWorkers
Main == CHOOSE t \in Threads : t \notin Workers
Min(a, b) == IF a < b THEN a ELSE b

\* ------------------------------------------------------------ HTTP boundary
\* kwargs.get(k) on the kwargs of a post/get call: a record holding some of
\* json, data, params.
KwGet(kw, k) == IF k \in DOMAIN kw THEN kw[k] ELSE Null

\* What the test code passes to session.post / session.get.
CallInputs ==
  { [method |-> "POST", url |-> "/v1/model/infer", kw |-> [json |-> Dict(<< 1, 2 >>)]],
    [method |-> "GET",  url |-> "/v1/model/infer", kw |-> [params |-> Dict(<< 3 >>)]] }

\* A response of the real network call. kind = "json": response.json() returns
\* body; kind = "text": response.json() raises and response.text is the first
\* textlen characters of the text named body. elapsed_us is response.elapsed.
Responses ==
  { [status_code |-> 200, kind |-> "json", body |-> Dict(<< 7, 8 >>), textlen |-> 40,
     elapsed_us |-> 1400],
    [status_code |-> 500, kind |-> "text", body |-> Str("Internal Server Error"),
     textlen |-> 600, elapsed_us |-> 2600] }

\* Exceptions the real network call raises (requests.ConnectionError, Timeout).
Exceptions == { [exc |-> "ConnectionError"], [exc |-> "Timeout"] }

IsExc(o) == "exc" \in DOMAIN o

\* Everything the real call (_orig_post / _orig_get) can do.
NetOutcomes == Responses \cup Exceptions

\* round(response.elapsed.total_seconds(), 3), kept in milliseconds.
Round3(us) == (us + 500) \div 1000

\* response.text[:500] if response.text else "": the first len characters of
\* the text named text.
Truncate(r) == [text |-> r.body, len |-> Min(r.textlen, TextCap)]

\* ------------------------------------------------------------- call entries
\* resp.json() succeeds exactly on a structured body.
JsonOk(r) == r.kind = "json"

\* Mutant of ResponsePart: the text is stored whether or not the body decodes.
ResponsePartTextAlways(r) ==
  IF JsonOk(r) THEN [response_payload |-> r.body, response_text |-> Truncate(r)]
  ELSE [response_text |-> Truncate(r)]

\* The try/except around response.json(): payload, or truncated text.
ResponsePart(r) ==
  IF JsonOk(r) THEN [response_payload |-> r.body]
  ELSE [response_text |-> Truncate(r)]

\* api_call built by TrackedSession.post / TrackedSession.get.
TrackedEntry(inp, r) ==
  ( IF inp.method = "POST"
    THEN [method |-> "POST", url |-> inp.url,
          request_payload |-> KwGet(inp.kw, "json"),
          request_data |-> KwGet(inp.kw, "data"),
          status_code |-> r.status_code,
          elapsed_seconds |-> Round3(r.elapsed_us)]
    ELSE [method |-> "GET", url |-> inp.url,
          request_params |-> KwGet(inp.kw, "params"),
          status_code |-> r.status_code,
          elapsed_seconds |-> Round3(r.elapsed_us)] ) @@ ResponsePart(r)

\* entry built by _capture_and_call on the global capture path.
GlobalEntry(inp, r) ==
  [method |-> inp.method, url |-> inp.url,
   request_payload |-> KwGet(inp.kw, "json"),
   request_data |-> KwGet(inp.kw, "data"),
   request_params |-> KwGet(inp.kw, "params"),
   status_code |-> r.status_code,
   elapsed_seconds |-> Round3(r.elapsed_us)] @@ ResponsePart(r)

\* --------------------------------------------------------------- test items
\* Source text is a sequence of words. A word is a call variable rN (k = "r",
\* n = N), a response holder (k = "holder", n names it, as in h_response), a
\* word that holds rN inside it without being it (k = "embed", as in err1), a
\* line break inside an expression (k = "nl") or anything else (k = "other").
Word(k, n) == [k |-> k, n |-> n]

NL == Word("nl", 0)

\* A node of the syntax tree of a test function: an assert statement with the
\* text of its condition and whether it has a failure message, or a compound
\* statement (def, if, for, try) with its body.
AssertStmt(text, msg) == [kind |-> "assert", text |-> text, msg |-> msg, body |-> << >>]

Compound(kind, body) == [kind |-> kind, text |-> << >>, msg |-> FALSE, body |-> body]

\* ast.walk(tree): breadth first, from the queue of nodes still to visit;
\* the assert nodes met, in the order of the walk.
RECURSIVE WalkAsserts(_)
WalkAsserts(todo) ==
  IF todo = << >> THEN << >>
  ELSE LET node == Head(todo)
           rest == WalkAsserts(Tail(todo) \o node.body)
       IN IF node.kind = "assert" THEN << node >> \o rest ELSE rest

IsNotNL(w) == w.k # "nl"

\* ast.unparse(node.test): the condition on one line; the failure message is
\* no part of node.test.
Unparse(text) == SelectSeq(text, IsNotNL)

\* The source of a test function as inspect.getsource gives it: kind is
\* "function" (module level), "method" (of a class: the text is indented),
\* "unavailable" (inspect.getsource raises OSError) or "noobj" (the item has
\* no obj); tree is what ast.parse makes of the text, call_vars the N of each
\* `rN = session.post(` / `session.get(` in it, holders the
\* `h_response = rN.json(` bindings in it, in text order.
Source(kind, tree, call_vars, holders) ==
  [kind |-> kind, tree |-> tree, call_vars |-> call_vars, holders |-> holders]

\* source or "": the empty text.
NoSource == Source("noobj", Compound("def", << >>), << >>, << >>)

\* hasattr(item, 'obj') and item.obj
HasObj(src) == src.kind # "noobj"

\* inspect.getsource(item.obj) raises.
GetSourceRaises(src) == src.kind = "unavailable"

\* ast.parse(source) raises: IndentationError on the indented text of a method.
ParseRaises(src) == src.kind = "method"

\* Mutant of ExtractAssertions: only the statements at the top level of the
\* function body are looked at.
ExtractTopLevel(src, outcome) ==
  IF ~HasObj(src) \/ ParseRaises(src) THEN << >>
  ELSE LET found == SelectSeq(src.tree.body, LAMBDA nd : nd.kind = "assert")
       IN [i \in 1..Len(found) |->
             [condition |-> Unparse(found[i].text),
              passed |-> outcome = "passed",
              full_assertion |-> << Word("assert", 0) >> \o Unparse(found[i].text)]]

\* The assertions the hook collects (conftest.py 186-206), given that
\* inspect.getsource did not raise: one per ast.Assert node of the walk; none
\* if there is no source or ast.parse raises.
ExtractAssertions(src, outcome) ==
  IF ~HasObj(src) \/ ParseRaises(src) THEN << >>
  ELSE LET found == WalkAsserts(<< src.tree >>)
       IN [i \in 1..Len(found) |->
             [condition |-> Unparse(found[i].text),
              passed |-> outcome = "passed",
              full_assertion |-> << Word("assert", 0) >> \o Unparse(found[i].text)]]

\* A metrics value: a number, or a mapping, which is the sequence of its
\* entries, each a key (a string or an integer, named by a number) and a value.
Num(n) == [t |-> "num", v |-> << n >>]

Key(t, n) == [t |-> t, v |-> n]

Mapping(entries) == [t |-> "map", v |-> entries]

\* What the test does with the recorder fixture: it does not request it
\* ("none"), requests it and records nothing ("unused"), or calls
\* recorder.metrics(data) ("used").
\* getattr(item, "_perf_metrics", None) at the end of the call phase: the
\* constructor of _Recorder has set it to {} and metrics(data) has updated it.
PerfMetrics(item) ==
  IF item.recorder = "none" THEN Null
  ELSE IF item.recorder = "unused" THEN Mapping(<< >>)
  ELSE Mapping(item.data)

\* A test item as pytest runs it: phase is "call" when the call phase ran,
\* "setup_skip" when a skip marker ended it in setup, "setup_error" when a
\* fixture raised in setup; outcome is report.outcome of the call phase.
TestItem(phase, outcome, source, recorder, data) ==
  [phase |-> phase, outcome |-> outcome, source |-> source,
   recorder |-> recorder, data |-> data]

\* Sources of test functions: one assert; asserts nested in if, for and try,
\* one wrapped over two lines, one with a failure message; no assert.
SrcPlain ==
  Source("function",
         Compound("def", << AssertStmt(<< Word("r", 1), Word("other", 0) >>, FALSE) >>),
         << 1 >>, << >>)

NestedTree ==
  Compound("def",
    << AssertStmt(<< Word("r", 1), Word("other", 0) >>, FALSE),
       Compound("if",
         << AssertStmt(<< Word("holder", 1), NL, Word("other", 0) >>, TRUE),
            Compound("for", << AssertStmt(<< Word("other", 0) >>, FALSE) >>) >>),
       Compound("try", << AssertStmt(<< Word("r", 2) >>, TRUE) >>) >>)

SrcNested == Source("function", NestedTree, << 1, 2 >>, << [var |-> 1, idx |-> 1] >>)

SrcMethod == Source("method", NestedTree, << 1, 2 >>, << [var |-> 1, idx |-> 1] >>)

SrcNoAsserts == Source("function", Compound("def", << >>), << >>, << >>)

SrcUnavailable == Source("unavailable", Compound("def", << >>), << >>, << >>)

Sources == { SrcPlain, SrcNested, SrcMethod, SrcNoAsserts, SrcUnavailable, NoSource }

\* Metrics data tests pass to recorder.metrics: string keys; a nested mapping
\* keyed by integers (the per-concurrency summary of the throughput test);
\* nothing.
MetricsData ==
  { << [key |-> Key("str", 1), val |-> Num(3)] >>,
    << [key |-> Key("str", 1), val |-> Num(3)],
       [key |-> Key("str", 2),
        val |-> Mapping(<< [key |-> Key("int", 5), val |-> Num(7)] >>)] >>,
    << >> }

\* The item of the runs that are about HTTP calls.
BaseItem == TestItem("call", "passed", SrcPlain, "none", << >>)

ItemKinds ==
  { TestItem("call", o, src, "none", << >>) :
      o \in {"passed", "failed", "skipped"}, src \in Sources }
  \cup { TestItem("setup_skip", "skipped", SrcPlain, "none", << >>),
         TestItem("setup_error", "failed", SrcPlain, "none", << >>),
         TestItem("call", "passed", SrcPlain, "unused", << >>) }
  \cup { TestItem("call", "passed", SrcPlain, "used", d) : d \in MetricsData }

\* -------------------------------------------------------------------- state
VARIABLES
  world,       \* the run under check: the threads that issue calls, the requests
               \* they send and what the real network call can do (fixed by Init)
  th,          \* per thread: the post/get call it is in (position, arguments, outcome)
  sessionBuf,  \* session._captured_calls of the session-scoped TrackedSession
  globalBuf,   \* _GLOBAL_API_CALLS
  lock,        \* _GLOBAL_API_LOCK: the set of threads holding it (empty or one)
  cur,         \* index of the test item pytest is running
  mpc,         \* main thread: "running" (setup and body of item cur), "hook",
               \* "teardown", "finish" (all items ran), "done" (artifact written)
  hasSession,  \* 'session' in item.funcargs, for item cur
  hook,        \* locals of pytest_runtest_makereport: captured_calls, global_calls
  store,       \* _test_details_store
  artifact,    \* test_details.json: whether it is written, and its content
  issued,      \* history: number of calls issued so far
  appended,    \* history: worker calls of item cur captured so far
  clock,       \* history: number of responses and of buffer appends so far
  report,      \* the renderer's output: whether it has run, and the
               \* deduped_calls of each test's section
  junit,       \* reports/junit.xml: whether it exists, and its test suites
  runs,        \* the runs of the report scripts so far: arguments, exit
               \* status, what was printed and what was written
  drv,         \* run_tests_and_generate_reports.py: position in main, the
               \* local `code`, the statuses of the steps, the exit code
  mock         \* the mock inference endpoint: the request it was sent and
               \* the response it gave

vars == << world, th, sessionBuf, globalBuf, lock, cur, mpc, hasSession, hook, store,
           artifact, issued, appended, clock, report, junit, runs, drv, mock >>

IdleThread ==
  [pc |-> "idle", inp |-> None, client |-> None, owner |-> 0,
   real |-> << >>, doneAt |-> 0, result |-> [state |-> "none"]]

NoHook == [captured_calls |-> << >>, global_calls |-> << >>]

NoArtifact == [written |-> FALSE, total_tests |-> 0, tests |-> << >>]

NoReport == [rendered |-> FALSE, tests |-> << >>, order |-> << >>]

NoJunit == [exists |-> FALSE, suites |-> << >>]

NoMock == [sent |-> FALSE, answered |-> FALSE]

NoRuns == [detailed |-> << >>, regression |-> << >>]

NoDriver == [pc |-> "off", code |-> 0, steps |-> << >>, exit |-> 0]

\* A load-test run: worker threads and the main thread post one request; the
\* real call answers with a structured body or raises.
LoadRun ==
  [items |-> [n \in 1..NumTests |-> BaseItem],
   callers |-> Threads,
   inputs |-> { i \in CallInputs : i.method = "POST" },
   outcomes |-> { o \in NetOutcomes : IsExc(o) => o.exc = "ConnectionError" } \
                { o \in Responses : ~JsonOk(o) }]

\* A sequential run: only the main thread issues calls, of every kind, and the
\* real call can do everything.
SequentialRun ==
  [items |-> [n \in 1..NumTests |-> BaseItem],
   callers |-> {Main}, inputs |-> CallInputs, outcomes |-> NetOutcomes]

InitRest ==
  /\ th = [t \in Threads |-> IdleThread]
  /\ sessionBuf = << >>
  /\ globalBuf = << >>
  /\ lock = {}
  /\ cur = 1
  /\ mpc = "running"
  /\ hasSession \in BOOLEAN
  /\ hook = NoHook
  /\ store = << >>
  /\ artifact = NoArtifact
  /\ issued = 0
  /\ appended = 0
  /\ clock = [resp |-> 0, app |-> 0]
  /\ report = NoReport
  /\ junit = NoJunit
  /\ runs = NoRuns
  /\ drv = NoDriver
  /\ mock = NoMock

Init == world = LoadRun /\ InitRest

InitSeq == world = SequentialRun /\ InitRest

\* The dict object appended to a buffer, with the history the properties read:
\* id names the call (the rank of its response among all responses), scope the
\* capture path that made the entry, seq is the rank of its append among all
\* appends, owner the test that was running when the call was issued, and
\* worker tells whether a worker thread issued it.
Item(t, scope, seq, entry) ==
  [id |-> th[t].doneAt, scope |-> scope, seq |-> seq,
   owner |-> th[t].owner, worker |-> t \in Workers, call |-> entry]

\* Mutant of BufAppend: the entry is inserted at the front.
BufAppendFront(buf, item) == << item >> \o buf

\* list.append(entry)
BufAppend(buf, item) == Append(buf, item)

\* Mutant of WrapperResult: response.json() is called outside a try block, so
\* a body that is not JSON raises to the caller.
WrapperResultDecodeRaises(r) ==
  IF JsonOk(r) THEN [state |-> "returned", value |-> r]
  ELSE [state |-> "raised", value |-> [exc |-> "JSONDecodeError"]]

\* return resp / return response: what the caller of post/get receives.
WrapperResult(r) == [state |-> "returned", value |-> r]

\* A test item is being run (setup, call, report hook or teardown).
TestRunning == mpc \notin {"finish", "done"}

\* Where thread t can be when it issues a call: the main thread in the setup
\* and body of the item (mpc = "running") or in its teardown; a worker thread,
\* which nothing joins, as long as items run, the report hook included.
CanIssue(t) ==
  IF t = Main THEN mpc \in {"running", "teardown"} ELSE TestRunning

\* The client instances thread t can call through: the TrackedSession of the
\* session fixture is held by tests that request it and used on their thread.
Clients(t) ==
  IF t = Main /\ hasSession THEN {"tracked", "plain"} ELSE {"plain"}

\* isinstance(self, TrackedSession)
IsTracked(client) == client = "tracked"

\* Mutant of LockFree: the append and the drain take no lock.
LockFreeNoLock == TRUE

\* `with _GLOBAL_API_LOCK:` can be entered.
LockFree == lock = {}

\* session.post(url, **kwargs) / session.get(url, **kwargs) is entered.
Issue(t, client, inp) ==
  /\ th[t].pc = "idle"
  /\ t \in world.callers
  /\ inp \in world.inputs
  /\ issued < MaxCalls
  /\ CanIssue(t)
  /\ client \in Clients(t)
  /\ issued' = issued + 1
  /\ th' = [th EXCEPT ![t] = [pc |-> "net", inp |-> inp,
                               client |-> client, owner |-> cur, real |-> << >>,
                               doneAt |-> 0, result |-> [state |-> "pending"]]]
  /\ UNCHANGED << world, mock, report, junit, runs, drv, sessionBuf, globalBuf, lock, cur, mpc, hasSession, hook, store,
                  artifact, appended, clock >>

\* The first real call. For a TrackedSession it runs inside the try block of
\* _capture_and_call: a response goes back to TrackedSession.post/get, which
\* appends its api_call and returns; an Exception is caught and the function
\* falls through to the global capture path. For any other client it is the
\* call of the global capture path: an exception propagates to the caller.
RealCall(t, o) ==
  /\ th[t].pc = "net"
  /\ o \in world.outcomes
  /\ IF IsExc(o)
     THEN /\ th' = [th EXCEPT ![t].real = Append(@, o),
                              ![t].pc = IF IsTracked(th[t].client) THEN "net2" ELSE "ret",
                              ![t].result = IF IsTracked(th[t].client)
                                            THEN [state |-> "pending"]
                                            ELSE [state |-> "raised", value |-> o]]
          /\ UNCHANGED << sessionBuf, clock >>
     ELSE IF IsTracked(th[t].client)
     THEN /\ th' = [th EXCEPT ![t].real = Append(@, o), ![t].pc = "ret",
                              ![t].doneAt = clock.resp + 1,
                              ![t].result = WrapperResult(o)]
          /\ sessionBuf' = BufAppend(sessionBuf,
                 [Item(t, "session", clock.app + 1, TrackedEntry(th[t].inp, o))
                    EXCEPT !.id = clock.resp + 1])
          /\ clock' = [resp |-> clock.resp + 1, app |-> clock.app + 1]
     ELSE /\ th' = [th EXCEPT ![t].real = Append(@, o), ![t].pc = "capture",
                              ![t].doneAt = clock.resp + 1]
          /\ clock' = [clock EXCEPT !.resp = @ + 1]
          /\ UNCHANGED sessionBuf
  /\ UNCHANGED << world, mock, report, junit, runs, drv, globalBuf, lock, cur, mpc, hasSession, hook, store, artifact,
                  issued, appended >>

\* The real call of the global capture path, reached by a TrackedSession after
\* its first real call raised.
SecondCall(t, o) ==
  /\ th[t].pc = "net2"
  /\ o \in world.outcomes
  /\ IF IsExc(o)
     THEN /\ th' = [th EXCEPT ![t].real = Append(@, o), ![t].pc = "ret",
                              ![t].result = [state |-> "raised", value |-> o]]
          /\ UNCHANGED clock
     ELSE /\ th' = [th EXCEPT ![t].real = Append(@, o), ![t].pc = "capture",
                              ![t].doneAt = clock.resp + 1]
          /\ clock' = [clock EXCEPT !.resp = @ + 1]
  /\ UNCHANGED << world, mock, report, junit, runs, drv, sessionBuf, globalBuf, lock, cur, mpc, hasSession, hook, store,
                  artifact, issued, appended >>

\* with _GLOBAL_API_LOCK: _GLOBAL_API_CALLS.append(entry); return resp.
\* For a TrackedSession the response returns into TrackedSession.post/get,
\* which appends its own api_call to the session buffer and returns it.
Capture(t) ==
  /\ th[t].pc = "capture"
  /\ LockFree
  /\ LET r == th[t].real[Len(th[t].real)]
     IN /\ globalBuf' = BufAppend(globalBuf,
               Item(t, "global", clock.app + 1, GlobalEntry(th[t].inp, r)))
        /\ sessionBuf' = IF IsTracked(th[t].client)
                         THEN BufAppend(sessionBuf,
                                Item(t, "session", clock.app + 2, TrackedEntry(th[t].inp, r)))
                         ELSE sessionBuf
        /\ th' = [th EXCEPT ![t].pc = "ret", ![t].result = WrapperResult(r)]
  /\ appended' = IF t \in Workers /\ th[t].owner = cur THEN appended + 1 ELSE appended
  /\ clock' = [clock EXCEPT !.app = IF IsTracked(th[t].client) THEN @ + 2 ELSE @ + 1]
  /\ UNCHANGED << world, mock, report, junit, runs, drv, lock, cur, mpc, hasSession, hook, store, artifact, issued >>

\* The caller takes the response or the exception and goes on.
Resume(t) ==
  /\ th[t].pc = "ret"
  /\ th' = [th EXCEPT ![t] = IdleThread]
  /\ UNCHANGED << world, mock, report, junit, runs, drv, sessionBuf, globalBuf, lock, cur, mpc, hasSession, hook, store,
                  artifact, issued, appended, clock >>

\* ------------------------------------------------------------ test lifecycle
MainIdle == th[Main].pc = "idle"

\* The item pytest is running.
CurItem == world.items[cur]

\* Mutant of Drained: the buffer is copied and not cleared.
DrainedNotCleared(buf, copy) == buf

\* `if buf: copy = list(buf); buf.clear()`: what the buffer holds afterwards.
Drained(buf, copy) == IF copy # << >> THEN << >> ELSE buf

\* pytest_runtest_makereport with report.when == "call", first half: the
\* session buffer is copied and cleared if the item has the session fixture;
\* then, with the lock of the global buffer taken, the global buffer is copied
\* if it is not empty.
\* An item whose call phase never ran gets no report with when == "call": the
\* hook does nothing for it.
HookDrain ==
  /\ mpc = "running"
  /\ MainIdle
  /\ IF CurItem.phase = "call"
     THEN /\ LockFree
          /\ hook' = [captured_calls |-> IF hasSession THEN sessionBuf ELSE << >>,
                      global_calls |-> globalBuf]
          /\ sessionBuf' = IF hasSession THEN << >> ELSE sessionBuf
          /\ lock' = {Main}
          /\ mpc' = "hook"
     ELSE /\ mpc' = "teardown"
          /\ UNCHANGED << hook, sessionBuf, lock >>
  /\ UNCHANGED << world, mock, report, junit, runs, drv, th, globalBuf, cur, hasSession, store, artifact, issued, appended, clock >>

\* Mutant of ApiCalls: the global part comes first.
ApiCallsGlobalFirst(captured_calls, global_calls) == global_calls \o captured_calls

\* "api_calls": captured_calls + global_calls
ApiCalls(captured_calls, global_calls) == captured_calls \o global_calls

EmptyRec == [x \in {} |-> x]

\* report.failed
Failed(outcome) == outcome = "failed"

\* Mutant of FailurePart: the detail is attached to every report that did not
\* pass.
FailurePartNotPassed(outcome) ==
  IF outcome # "passed" THEN [failure_message |-> "longrepr"] ELSE EmptyRec

\* if report.failed: test_data["failure_message"] = str(report.longrepr)
FailurePart(outcome) ==
  IF Failed(outcome) THEN [failure_message |-> "longrepr"] ELSE EmptyRec

\* if perf_metrics is not None: test_data["metrics"] = perf_metrics
MetricsPart(item) ==
  IF PerfMetrics(item).t # "null" THEN [metrics |-> PerfMetrics(item)] ELSE EmptyRec

\* test_data of the hook (conftest.py 208-232), with the fields the report
\* pipeline reads.
TestData(name, item, api_calls) ==
  [test_name |-> name,
   outcome |-> item.outcome,
   api_calls |-> api_calls,
   assertions |-> ExtractAssertions(item.source, item.outcome),
   source_code |-> IF HasObj(item.source) THEN item.source ELSE NoSource]
  @@ MetricsPart(item) @@ FailurePart(item.outcome)

\* Second half: _GLOBAL_API_CALLS.clear() in the branch that copied it, the
\* lock is released, the assertions are extracted, test_data is built and
\* appended to _test_details_store. When inspect.getsource raises, the
\* exception leaves the hook: nothing is appended, pytest stops running items
\* and goes to pytest_sessionfinish.
\* seen is history: the number of worker calls of this test captured so far.
HookBuild ==
  /\ mpc = "hook"
  /\ globalBuf' = Drained(globalBuf, hook.global_calls)
  /\ lock' = {}
  /\ IF GetSourceRaises(CurItem.source)
     THEN /\ store' = store
          /\ mpc' = "finish"
     ELSE /\ store' = Append(store,
                 TestData(cur, CurItem, ApiCalls(hook.captured_calls, hook.global_calls))
                   @@ [seen |-> appended])
          /\ mpc' = "teardown"
  /\ hook' = NoHook
  /\ UNCHANGED << world, mock, report, junit, runs, drv, th, sessionBuf, cur, hasSession, artifact, issued, appended, clock >>

\* The teardown of the item ends: the next item starts, with or without the
\* session fixture, or the session ends.
EndTest ==
  /\ mpc = "teardown"
  /\ MainIdle
  /\ IF cur < NumTests
     THEN cur' = cur + 1 /\ mpc' = "running" /\ hasSession' \in BOOLEAN
     ELSE cur' = cur /\ mpc' = "finish" /\ hasSession' = hasSession
  /\ appended' = 0
  /\ UNCHANGED << world, mock, report, junit, runs, drv, th, sessionBuf, globalBuf, lock, hook, store, artifact, issued, clock >>

\* json.dump(..., default=str) of a metrics value, as json.load reads it back:
\* the key of a mapping entry is written as a string, also when it is an
\* integer.
RECURSIVE JsonDump(_)
JsonDump(v) ==
  IF v.t = "map"
  THEN Mapping([i \in 1..Len(v.v) |->
                  [key |-> Key("str", v.v[i].key.v), val |-> JsonDump(v.v[i].val)]])
  ELSE v

\* What json.dump writes for one test_data: the entries themselves, without
\* the history the model attaches to them.
Serialized(rec) ==
  [k \in DOMAIN rec \ {"seen"} |->
     IF k = "api_calls" THEN [j \in 1..Len(rec.api_calls) |-> rec.api_calls[j].call]
     ELSE IF k = "metrics" THEN JsonDump(rec.metrics)
     ELSE rec[k]]

\* Mutant of Details: total_tests counts the items that were run.
DetailsCountsItems(s) ==
  [total_tests |-> cur, tests |-> [n \in 1..Len(s) |-> Serialized(s[n])]]

\* The object pytest_sessionfinish hands to json.dump: the number of records
\* and the records.
Details(s) ==
  [total_tests |-> Len(s), tests |-> [n \in 1..Len(s) |-> Serialized(s[n])]]

\* pytest_sessionfinish: json.dump of the store into test_details.json.
SessionFinish ==
  /\ mpc = "finish"
  /\ artifact' = [written |-> TRUE] @@ Details(store)
  /\ mpc' = "done"
  /\ UNCHANGED << world, mock, report, junit, runs, drv, th, sessionBuf, globalBuf, lock, cur, hasSession, hook, store,
                  issued, appended, clock >>

\* ------------------------------------------------------------------ renderer
\* c.get(k) on a call entry loaded from the artifact.
Get(c, k) == IF k \in DOMAIN c THEN c[k] ELSE Null

\* Python truth value of a JSON value: None and the empty dict or string are
\* false.
Falsy(v) == v.t = "null" \/ v.v = << >>

\* a or b
Or(a, b) == IF Falsy(a) THEN b ELSE a

\* Insertion of x into a sorted sequence.
RECURSIVE SortedInsert(_, _)
SortedInsert(q, x) ==
  IF q = << >> THEN << x >>
  ELSE IF x <= Head(q) THEN << x >> \o q
  ELSE << Head(q) >> \o SortedInsert(Tail(q), x)

\* The keys of a dict in sorted order (sort_keys=True).
RECURSIVE Sorted(_)
Sorted(q) == IF q = << >> THEN << >> ELSE SortedInsert(Sorted(Tail(q)), Head(q))

\* json.dumps(v, sort_keys=True, default=str): the text of v, a dict with its
\* keys in sorted order, None as null.
Dumps(v) == IF v.t = "dict" THEN [t |-> "dict", v |-> Sorted(v.v)] ELSE v

\* json.dumps(..., default=str) raises on no value loaded from a JSON file.
DumpsRaises(v) == FALSE

\* req of _call_key: request_payload, or, when that is None,
\* request_params or request_data.
KeyRequest(c) ==
  IF Get(c, "request_payload").t = "null"
  THEN Or(Get(c, "request_params"), Get(c, "request_data"))
  ELSE Get(c, "request_payload")

\* req_s of _call_key (str(req) when json.dumps raises).
ReqS(c) == IF DumpsRaises(KeyRequest(c)) THEN KeyRequest(c) ELSE Dumps(KeyRequest(c))

\* resp_s of _call_key: the dumped response_payload; response_text is read
\* only when json.dumps raises.
RespS(c) ==
  IF DumpsRaises(Get(c, "response_payload")) THEN Get(c, "response_text")
  ELSE Dumps(Get(c, "response_payload"))

\* _call_key(c)
CallKey(c) == << c.method, c.url, c.status_code, ReqS(c), RespS(c) >>

\* for c in api_calls: k = _call_key(c); if k in seen: continue;
\* seen.add(k); deduped_calls.append(c)
RECURSIVE DedupLoop(_, _, _, _)
DedupLoop(api_calls, i, seen, deduped_calls) ==
  IF i > Len(api_calls) THEN deduped_calls
  ELSE IF CallKey(api_calls[i]) \in seen
       THEN DedupLoop(api_calls, i + 1, seen, deduped_calls)
       ELSE DedupLoop(api_calls, i + 1, seen \cup {CallKey(api_calls[i])},
                      Append(deduped_calls, api_calls[i]))

Deduped(api_calls) == DedupLoop(api_calls, 1, {}, << >>)

\* test.get(k, default)
TGet(test, k, default) == IF k \in DOMAIN test THEN test[k] ELSE default

\* The result of assign_call_index: an index, or None.
Index(n) == [found |-> TRUE, idx |-> n]

NoIndex == [found |-> FALSE, idx |-> 0]

\* The first of the positions S; 0 if there is none.
FirstPos(S) == IF S = {} THEN 0 ELSE CHOOSE i \in S : \A j \in S : i <= j

\* re.search(r"\br(\d+)\b", condition): the first word rN of the condition.
DirectRef(cond) == FirstPos({ i \in 1..Len(cond) : cond[i].k = "r" })

\* `var in condition` for a response holder: some word of the condition is it.
MentionsHolder(cond, var) == \E i \in 1..Len(cond) : cond[i].k = "holder" /\ cond[i].n = var

\* `var in condition` for a call variable rN: a substring test, true of the
\* word rN and of a word that holds rN inside it.
MentionsCallVar(cond, n) ==
  \E i \in 1..Len(cond) : cond[i].k \in {"r", "embed"} /\ cond[i].n = n

\* The first binding of response_var_to_index whose holder the condition
\* mentions; 0 if there is none.
HolderHit(cond, src) ==
  FirstPos({ i \in 1..Len(src.holders) : MentionsHolder(cond, src.holders[i].var) })

\* The first call variable of call_var_to_index that the condition mentions;
\* 0 if there is none.
CallVarHit(cond, src) ==
  FirstPos({ i \in 1..Len(src.call_vars) : MentionsCallVar(cond, src.call_vars[i]) })

\* Mutant of AssignCallIndex: the response holders are looked at first.
AssignHolderFirst(cond, src) ==
  IF cond = << >> THEN NoIndex
  ELSE IF HolderHit(cond, src) # 0 THEN Index(src.holders[HolderHit(cond, src)].idx)
  ELSE IF DirectRef(cond) # 0 THEN Index(cond[DirectRef(cond)].n)
  ELSE IF CallVarHit(cond, src) # 0 THEN Index(src.call_vars[CallVarHit(cond, src)])
  ELSE NoIndex

\* assign_call_index(condition), with response_var_to_index and
\* call_var_to_index taken from the source text src.
AssignCallIndex(cond, src) ==
  IF cond = << >> THEN NoIndex
  ELSE IF DirectRef(cond) # 0 THEN Index(cond[DirectRef(cond)].n)
  ELSE IF HolderHit(cond, src) # 0 THEN Index(src.holders[HolderHit(cond, src)].idx)
  ELSE IF CallVarHit(cond, src) # 0 THEN Index(src.call_vars[CallVarHit(cond, src)])
  ELSE NoIndex

\* a.get('condition') or a.get('assertion') or ''
ConditionOf(a) ==
  IF TGet(a, "condition", << >>) # << >> THEN a.condition
  ELSE TGet(a, "assertion", << >>)

\* `if idx_for_a and idx_for_a in per_call_assertions`
InBuckets(ix, ncalls) == ix.found /\ ix.idx # 0 /\ ix.idx \in 1..ncalls

\* Mutant of BucketLoop: an assertion whose index names no call is skipped.
RECURSIVE BucketLoopSkipsMisses(_, _, _, _)
BucketLoopSkipsMisses(assertions, src, i, b) ==
  IF i > Len(assertions) THEN b
  ELSE LET ix == AssignCallIndex(ConditionOf(assertions[i]), src)
       IN IF InBuckets(ix, Len(b.per_call_assertions))
          THEN BucketLoopSkipsMisses(assertions, src, i + 1,
                 [b EXCEPT !.per_call_assertions[ix.idx] = Append(@, assertions[i]),
                           !.idx_for_a = Append(@, ix)])
          ELSE IF ix.found
          THEN BucketLoopSkipsMisses(assertions, src, i + 1,
                 [b EXCEPT !.idx_for_a = Append(@, ix)])
          ELSE BucketLoopSkipsMisses(assertions, src, i + 1,
                 [b EXCEPT !.unassigned_assertions = Append(@, assertions[i]),
                           !.idx_for_a = Append(@, ix)])

\* for a in assertions: the assertion goes to the bucket of its call index
\* or to unassigned_assertions. idx_for_a keeps the index computed for each
\* assertion, by position.
RECURSIVE BucketLoop(_, _, _, _)
BucketLoop(assertions, src, i, b) ==
  IF i > Len(assertions) THEN b
  ELSE LET ix == AssignCallIndex(ConditionOf(assertions[i]), src)
       IN IF InBuckets(ix, Len(b.per_call_assertions))
          THEN BucketLoop(assertions, src, i + 1,
                 [b EXCEPT !.per_call_assertions[ix.idx] = Append(@, assertions[i]),
                           !.idx_for_a = Append(@, ix)])
          ELSE BucketLoop(assertions, src, i + 1,
                 [b EXCEPT !.unassigned_assertions = Append(@, assertions[i]),
                           !.idx_for_a = Append(@, ix)])

\* per_call_assertions = {i: [] for i in range(1, len(api_calls) + 1)};
\* unassigned_assertions = []; then the loop.
Buckets(test) ==
  BucketLoop(TGet(test, "assertions", << >>), TGet(test, "source_code", NoSource), 1,
             [per_call_assertions |-> [i \in 1..Len(TGet(test, "api_calls", << >>)) |-> << >>],
              unassigned_assertions |-> << >>,
              idx_for_a |-> << >>])

\* Mutant of FilteredAsserts: the assertions of a call are shown as they are.
FilteredAssertsAll(call_asserts, i, seen_conditions) == call_asserts

\* The loop over call_asserts: an assertion without a condition is dropped,
\* and so is one whose condition was seen before.
RECURSIVE FilteredAsserts(_, _, _)
FilteredAsserts(call_asserts, i, seen_conditions) ==
  IF i > Len(call_asserts) THEN << >>
  ELSE LET cond == TGet(call_asserts[i], "condition", << >>)
       IN IF cond = << >> \/ cond \in seen_conditions
          THEN FilteredAsserts(call_asserts, i + 1, seen_conditions)
          ELSE << call_asserts[i] >>
                 \o FilteredAsserts(call_asserts, i + 1, seen_conditions \cup {cond})

\* per_call_assertions.get(idx, [])
BucketGet(per_call_assertions, idx) ==
  IF idx \in DOMAIN per_call_assertions THEN per_call_assertions[idx] ELSE << >>

\* for idx, call in enumerate(deduped_calls, 1): the assertions written under
\* Call #idx are those of bucket idx, filtered.
CallAsserts(test) ==
  [idx \in 1..Len(Deduped(TGet(test, "api_calls", << >>))) |->
     FilteredAsserts(BucketGet(Buckets(test).per_call_assertions, idx), 1, {})]

\* [t for t in tests if t.get('outcome') == outcome], by position in tests.
WithOutcome(tests, outcome) ==
  SelectSeq([n \in 1..Len(tests) |-> n],
            LAMBDA n : TGet(tests[n], "outcome", "unknown") = outcome)

\* The section list of the report: the failed tests, then the passed, then
\* the skipped; the tests shown, by position in the artifact, in the order in
\* which their blocks are written.
Sections(tests) ==
  WithOutcome(tests, "failed") \o WithOutcome(tests, "passed")
    \o WithOutcome(tests, "skipped")

\* generate_html_report: load_test_details reads the artifact; each test's
\* section is built from its assertions bucketed by call index and from its
\* deduplicated calls. tests holds what is computed for each test of the
\* artifact, order the tests whose blocks are written.
DetailedOutput(data) ==
  [order |-> Sections(data.tests),
   tests |-> [n \in 1..Len(data.tests) |->
                [test_name |-> data.tests[n].test_name,
                 deduped_calls |-> Deduped(TGet(data.tests[n], "api_calls", << >>)),
                 shown |-> CallAsserts(data.tests[n])]
                @@ Buckets(data.tests[n])]]

\* The renderer runs on the artifact of the session.
Render ==
  /\ artifact.written
  /\ ~report.rendered
  /\ report' = [rendered |-> TRUE] @@ DetailedOutput(artifact)
  /\ UNCHANGED << world, mock, junit, runs, drv, th, sessionBuf, globalBuf, lock, cur, mpc, hasSession, hook,
                  store, artifact, issued, appended, clock >>

Next ==
  \/ \E t \in Threads, c \in {"tracked", "plain"}, inp \in CallInputs : Issue(t, c, inp)
  \/ \E t \in Threads, o \in NetOutcomes : RealCall(t, o)
  \/ \E t \in Threads, o \in NetOutcomes : SecondCall(t, o)
  \/ \E t \in Threads : Capture(t)
  \/ \E t \in Threads : Resume(t)
  \/ HookDrain
  \/ HookBuild
  \/ EndTest
  \/ SessionFinish
  \/ Render

Spec == Init /\ [][Next]_vars

SpecSeq == InitSeq /\ [][Next]_vars

\* ------------------------------------------------ runs of every kind of item
\* A run whose tests issue no HTTP call: each test is any kind of item.
ItemsRun(items) == [items |-> items, callers |-> {}, inputs |-> {}, outcomes |-> {}]

InitItems ==
  /\ \E items \in [1..NumTests -> ItemKinds] : world = ItemsRun(items)
  /\ InitRest

\* The steps of a run without HTTP calls.
NextItems ==
  \/ HookDrain
  \/ HookBuild
  \/ EndTest
  \/ SessionFinish
  \/ Render

SpecItems == InitItems /\ [][NextItems]_vars

\* ------------------------------------------------- the renderer on its own
\* Requests and responses of the entries a test_details.json can hold: the
\* same body with its keys in another order, the same response with another
\* elapsed time, another text under the same status.
DedupInputs ==
  { i \in CallInputs : i.method = "POST" } \cup
  { [method |-> "POST", url |-> "/v1/model/infer", kw |-> [json |-> Dict(<< 2, 1 >>)]] }

DedupResponses ==
  Responses \cup
  { [status_code |-> 200, kind |-> "json", body |-> Dict(<< 7, 8 >>), textlen |-> 40,
     elapsed_us |-> 2600],
    [status_code |-> 500, kind |-> "text", body |-> Str("Bad Gateway"),
     textlen |-> 11, elapsed_us |-> 2600] }

DedupEntries ==
  { TrackedEntry(i, r) : i \in DedupInputs, r \in DedupResponses } \cup
  { GlobalEntry(i, r) : i \in DedupInputs, r \in DedupResponses }

\* The renderer is started on a test_details.json of one test whose api_calls
\* is any list of at most MaxDedupLen such entries.
InitDedup ==
  /\ world = SequentialRun
  /\ th = [t \in Threads |-> IdleThread]
  /\ sessionBuf = << >>
  /\ globalBuf = << >>
  /\ lock = {}
  /\ cur = 1
  /\ mpc = "done"
  /\ hasSession = FALSE
  /\ hook = NoHook
  /\ store = << >>
  /\ \E n \in 0..MaxDedupLen : \E calls \in [1..n -> DedupEntries] :
        artifact = [written |-> TRUE, total_tests |-> 1,
                    tests |-> << [test_name |-> 1, api_calls |-> calls] >>]
  /\ issued = 0
  /\ appended = 0
  /\ clock = [resp |-> 0, app |-> 0]
  /\ report = NoReport
  /\ junit = NoJunit
  /\ runs = NoRuns
  /\ drv = NoDriver
  /\ mock = NoMock

NextDedup == Render

SpecDedup == InitDedup /\ [][NextDedup]_vars

\* The conditions of assertions: a direct r1; a response holder and a direct
\* r2; a response holder alone; two holders; no variable; r0; r3; a word that
\* holds r1 inside it; the empty condition.
Conditions ==
  { << Word("r", 1), Word("other", 0) >>,
    << Word("holder", 1), Word("other", 0), Word("r", 2) >>,
    << Word("holder", 1) >>,
    << Word("holder", 2), Word("holder", 1) >>,
    << Word("other", 0) >>,
    << Word("r", 0) >>,
    << Word("r", 3) >>,
    << Word("embed", 1) >>,
    << >> }

\* Source texts by their bindings: r1 and r2 with a holder for each; r1 with
\* a holder bound to r1.json(); no source.
BindingSources ==
  { Source("function", Compound("def", << >>), << 1, 2 >>,
           << [var |-> 1, idx |-> 1], [var |-> 2, idx |-> 2] >>),
    Source("function", Compound("def", << >>), << 1 >>, << [var |-> 1, idx |-> 1] >>),
    NoSource }

CallLists ==
  { << >>,
    << GlobalEntry(CHOOSE i \in CallInputs : i.method = "POST",
                   CHOOSE r \in Responses : JsonOk(r)) >>,
    << GlobalEntry(CHOOSE i \in CallInputs : i.method = "POST",
                   CHOOSE r \in Responses : JsonOk(r)),
       GlobalEntry(CHOOSE i \in CallInputs : i.method = "POST",
                   CHOOSE r \in Responses : JsonOk(r)),
       GlobalEntry(CHOOSE i \in CallInputs : i.method = "GET",
                   CHOOSE r \in Responses : ~JsonOk(r)) >>,
    << GlobalEntry(CHOOSE i \in CallInputs : i.method = "POST",
                   CHOOSE r \in Responses : JsonOk(r)),
       GlobalEntry(CHOOSE i \in CallInputs : i.method = "GET",
                   CHOOSE r \in Responses : ~JsonOk(r)) >> }

\* The renderer is started on a test_details.json of one test with at most
\* MaxAsserts assertions.
InitCorrelate ==
  /\ world = SequentialRun
  /\ th = [t \in Threads |-> IdleThread]
  /\ sessionBuf = << >>
  /\ globalBuf = << >>
  /\ lock = {}
  /\ cur = 1
  /\ mpc = "done"
  /\ hasSession = FALSE
  /\ hook = NoHook
  /\ store = << >>
  /\ \E n \in 0..MaxAsserts : \E conds \in [1..n -> Conditions] :
       \E src \in BindingSources : \E calls \in CallLists :
        artifact = [written |-> TRUE, total_tests |-> 1,
                    tests |-> << [test_name |-> 1, outcome |-> "passed",
                                  api_calls |-> calls,
                                  assertions |-> [i \in 1..n |->
                                     [condition |-> conds[i], passed |-> TRUE,
                                      full_assertion |-> << Word("assert", 0) >> \o conds[i]]],
                                  source_code |-> src] >>]
  /\ issued = 0
  /\ appended = 0
  /\ clock = [resp |-> 0, app |-> 0]
  /\ report = NoReport
  /\ junit = NoJunit
  /\ runs = NoRuns
  /\ drv = NoDriver
  /\ mock = NoMock

SpecCorrelate == InitCorrelate /\ [][NextDedup]_vars

\* ---------------------------------------------- the renderer's section list
\* The outcomes a test record can carry (the renderer has a colour for each).
Outcomes == {"passed", "failed", "skipped", "error"}

\* The renderer is started on a test_details.json of at most MaxRecords tests
\* of any outcome, without calls and assertions.
InitSections ==
  /\ world = SequentialRun
  /\ th = [t \in Threads |-> IdleThread]
  /\ sessionBuf = << >>
  /\ globalBuf = << >>
  /\ lock = {}
  /\ cur = 1
  /\ mpc = "done"
  /\ hasSession = FALSE
  /\ hook = NoHook
  /\ store = << >>
  /\ \E n \in 0..MaxRecords : \E outcomes \in [1..n -> Outcomes] :
        artifact = [written |-> TRUE, total_tests |-> n,
                    tests |-> [i \in 1..n |->
                                 [test_name |-> i, outcome |-> outcomes[i],
                                  api_calls |-> << >>, assertions |-> << >>,
                                  source_code |-> NoSource]]]
  /\ issued = 0
  /\ appended = 0
  /\ clock = [resp |-> 0, app |-> 0]
  /\ report = NoReport
  /\ junit = NoJunit
  /\ runs = NoRuns
  /\ drv = NoDriver
  /\ mock = NoMock

SpecSections == InitSections /\ [][NextDedup]_vars

\* ------------------------------------------------------- the results export
\* What pytest reports for one test: it passed, failed in its body, was
\* skipped, raised in setup ("error"), or failed in its body and then raised
\* in teardown.
TestResults == {"passed", "failed", "skipped", "error", "failed_teardown_error"}

\* A <testcase> element as parse_junit reads it: its name and which of the
\* children <failure>, <error>, <skipped> it has ("none": no child).
Case(name, child) == [name |-> name, child |-> child]

\* The testcase elements written for one test. A failure in the body followed
\* by an error in teardown is written as two testcase elements of the same
\* name, the first with <failure>, the second with <error>.
CasesOf(n, result) ==
  IF result = "passed" THEN << Case(n, "none") >>
  ELSE IF result = "failed" THEN << Case(n, "failure") >>
  ELSE IF result = "skipped" THEN << Case(n, "skipped") >>
  ELSE IF result = "error" THEN << Case(n, "error") >>
  ELSE << Case(n, "failure"), Case(n, "error") >>

RECURSIVE Cases(_, _)
Cases(results, i) ==
  IF i > Len(results) THEN << >> ELSE CasesOf(i, results[i]) \o Cases(results, i + 1)

\* The number of testcase elements with the given child.
CountChild(cases, child) ==
  Cardinality({ i \in 1..Len(cases) : cases[i].child = child })

\* reports/junit.xml as the test run writes it: one <testsuite> whose tests
\* attribute counts the tests and whose failures, errors and skipped
\* attributes count the children written.
JunitOf(results) ==
  [exists |-> TRUE,
   suites |-> << [tests |-> Len(results),
                  failures |-> CountChild(Cases(results, 1), "failure"),
                  errors |-> CountChild(Cases(results, 1), "error"),
                  skipped |-> CountChild(Cases(results, 1), "skipped"),
                  cases |-> Cases(results, 1)] >>]

\* A file that exists and cannot be parsed.
MalformedFile == [exists |-> TRUE, written |-> TRUE, malformed |-> TRUE]

Malformed(f) == "malformed" \in DOMAIN f

\* ------------------------------------------------------ regression report
\* The sum of an attribute over the suites.
RECURSIVE SumAttr(_, _, _)
SumAttr(suites, attr, i) ==
  IF i > Len(suites) THEN 0 ELSE suites[i][attr] + SumAttr(suites, attr, i + 1)

\* The entries appended to failed_cases for the testcases of one suite.
FailedCasesOf(cases) ==
  LET failing == SelectSeq(cases, LAMBDA c : c.child \in {"failure", "error"})
  IN [i \in 1..Len(failing) |-> [name |-> failing[i].name, type |-> failing[i].child]]

RECURSIVE FailedCases(_, _)
FailedCases(suites, i) ==
  IF i > Len(suites) THEN << >>
  ELSE FailedCasesOf(suites[i].cases) \o FailedCases(suites, i + 1)

\* passed += 1 for every testcase without failure, error and skipped.
RECURSIVE PassedCases(_, _)
PassedCases(suites, i) ==
  IF i > Len(suites) THEN 0
  ELSE CountChild(suites[i].cases, "none") + PassedCases(suites, i + 1)

\* if passed == 0: passed = computed_passed
Passed(counted, computed_passed) ==
  IF counted = 0 THEN computed_passed ELSE counted

\* parse_junit on a file that exists and parses.
ParseJunit(j) ==
  LET total == SumAttr(j.suites, "tests", 1)
      failures == SumAttr(j.suites, "failures", 1)
      errors == SumAttr(j.suites, "errors", 1)
      skipped == SumAttr(j.suites, "skipped", 1)
  IN [total |-> total,
      passed |-> Passed(PassedCases(j.suites, 1), total - failures - errors - skipped),
      failures |-> failures,
      errors |-> errors,
      skipped |-> skipped,
      failed_cases |-> FailedCases(j.suites, 1)]

\* Mutant of Recs: only the failures attribute is looked at.
RecsFailuresOnly(summary) ==
  IF summary.failures = 0 THEN "healthy_baseline" ELSE "triage"

\* The recommendations: the two items of the healthy baseline, or the three
\* triage items.
Recs(summary) ==
  IF summary.failures + summary.errors = 0 THEN "healthy_baseline" ELSE "triage"

\* Mutant of GenerateHtml: the page carries the time at which it is made.
GenerateHtmlTimestamped(summary, args) ==
  [counts |-> [k \in {"total", "passed", "failures", "errors", "skipped"} |-> summary[k]],
   junit_path |-> args.junit,
   pytest_html |-> args.pytest_html,
   rows |-> summary.failed_cases,
   recs |-> Recs(summary),
   generated |-> Len(runs.regression)]

\* generate_html: the counts line, the paths, the rows of the defect table
\* (none: "No failing tests detected") and the recommendations.
GenerateHtml(summary, args) ==
  [counts |-> [k \in {"total", "passed", "failures", "errors", "skipped"} |-> summary[k]],
   junit_path |-> args.junit,
   pytest_html |-> args.pytest_html,
   rows |-> summary.failed_cases,
   recs |-> Recs(summary)]

NoOutput == [none |-> TRUE]

\* One run of a report script: its arguments, how it ended, its exit status,
\* the path its message names, whether it wrote its output file, and what it
\* wrote.
ScriptRun(args, outcome, status, names, wrote, output) ==
  [args |-> args, outcome |-> outcome, status |-> status, names |-> names,
   wrote |-> wrote, output |-> output]

\* main of generate_regression_report.py: parse_junit raises
\* FileNotFoundError for a missing file and ET.parse raises ParseError for a
\* malformed one; main catches neither, so the interpreter prints the
\* traceback and exits with status 1 before anything is written.
RegressionRun(args) ==
  IF ~junit.exists
  THEN ScriptRun(args, "unhandled_FileNotFoundError", 1, args.junit, FALSE, NoOutput)
  ELSE IF Malformed(junit)
  THEN ScriptRun(args, "unhandled_ParseError", 1, "", FALSE, NoOutput)
  ELSE ScriptRun(args, "ok", 0, args.out, TRUE, GenerateHtml(ParseJunit(junit), args))

\* main of generate_detailed_report.py: FileNotFoundError of
\* load_test_details is reported with its path and status 1; any other
\* exception is reported with a traceback and status 1.
DetailedRun(args) ==
  IF ~artifact.written
  THEN ScriptRun(args, "not_found", 1, args.json, FALSE, NoOutput)
  ELSE IF Malformed(artifact)
  THEN ScriptRun(args, "error_generating_report", 1, "", FALSE, NoOutput)
  ELSE ScriptRun(args, "ok", 0, args.out, TRUE, DetailedOutput(artifact))

\* The command lines of the two scripts.
RegressionArgs ==
  { [junit |-> "reports/junit.xml", out |-> "reports/regression_report.html",
     pytest_html |-> h] : h \in {"", "reports/report.html"} }

DetailedArgs ==
  { [json |-> "reports/test_details.json", out |-> "reports/detailed_report.html"] }

\* python scripts/generate_regression_report.py --junit ... --out ...
RegressionMain(args) ==
  /\ Len(runs.regression) < MaxRuns
  /\ runs' = [runs EXCEPT !.regression = Append(@, RegressionRun(args))]
  /\ UNCHANGED << world, mock, report, junit, drv, th, sessionBuf, globalBuf, lock, cur, mpc,
                  hasSession, hook, store, artifact, issued, appended, clock >>

\* python scripts/generate_detailed_report.py
DetailedMain(args) ==
  /\ Len(runs.detailed) < MaxRuns
  /\ runs' = [runs EXCEPT !.detailed = Append(@, DetailedRun(args))]
  /\ UNCHANGED << world, mock, report, junit, drv, th, sessionBuf, globalBuf, lock, cur, mpc,
                  hasSession, hook, store, artifact, issued, appended, clock >>

\* The results exports of runs of at most MaxJunit tests.
JunitFiles ==
  { JunitOf(results) :
      results \in UNION { [1..n -> TestResults] : n \in 0..MaxJunit } }

\* The artifacts the detailed report is made from: a run of one test with one
\* assertion.
ReportArtifacts ==
  { [written |-> TRUE, total_tests |-> 1,
     tests |-> << [test_name |-> 1, outcome |-> "passed", api_calls |-> calls,
                   assertions |-> << [condition |-> cond, passed |-> TRUE,
                                      full_assertion |-> << Word("assert", 0) >> \o cond] >>,
                   source_code |-> CHOOSE src \in BindingSources : Len(src.call_vars) = 2] >>] :
      calls \in CallLists,
      cond \in { c \in Conditions : Len(c) >= 2 } }

\* The report scripts are started, any number of times, on files that are
\* missing, malformed or well-formed.
InitReports ==
  /\ world = SequentialRun
  /\ th = [t \in Threads |-> IdleThread]
  /\ sessionBuf = << >>
  /\ globalBuf = << >>
  /\ lock = {}
  /\ cur = 1
  /\ mpc = "done"
  /\ hasSession = FALSE
  /\ hook = NoHook
  /\ store = << >>
  /\ artifact \in {NoArtifact, MalformedFile} \cup ReportArtifacts
  /\ issued = 0
  /\ appended = 0
  /\ clock = [resp |-> 0, app |-> 0]
  /\ report = NoReport
  /\ junit \in {NoJunit, MalformedFile} \cup JunitFiles
  /\ runs = NoRuns
  /\ drv = NoDriver
  /\ mock = NoMock

NextReports ==
  \/ \E args \in RegressionArgs : RegressionMain(args)
  \/ \E args \in DetailedArgs : DetailedMain(args)

SpecReports == InitReports /\ [][NextReports]_vars

\* ------------------------------------------------------------------ driver
\* The exit codes of pytest: all passed, some failed, interrupted, internal
\* error, usage error, no tests collected.
PytestExitCodes == 0..5

\* A step of main after the test run, with the exit status of its subprocess.
Step(name, status) == [name |-> name, status |-> status]

\* Mutant of DriverExit: the status of the last step is returned.
DriverExitLastStep(code, steps) == steps[Len(steps)].status

\* return code
DriverExit(code, steps) == code

DriverAt(pc) == drv.pc = pc

\* code = run_pytest(env): the test run ends with some exit code; it has
\* written reports/junit.xml, or it has not and the file is as it was.
DrvRunPytest ==
  /\ DriverAt("start")
  /\ \E code \in PytestExitCodes :
       drv' = [drv EXCEPT !.pc = "ensure", !.code = code]
  /\ junit' \in {junit, MalformedFile} \cup JunitFiles
  /\ UNCHANGED << world, mock, report, runs, th, sessionBuf, globalBuf, lock, cur, mpc,
                  hasSession, hook, store, artifact, issued, appended, clock >>

\* ensure_junit(): nothing if the file exists; otherwise a second pytest run
\* with --junitxml, whose exit code is dropped (check=False).
DrvEnsureJunit ==
  /\ DriverAt("ensure")
  /\ IF junit.exists
     THEN /\ junit' = junit
          /\ drv' = [drv EXCEPT !.pc = "markdown"]
     ELSE /\ junit' \in {junit} \cup JunitFiles
          /\ \E status \in PytestExitCodes :
               drv' = [drv EXCEPT !.pc = "markdown",
                                  !.steps = Append(@, Step("ensure_junit", status))]
  /\ UNCHANGED << world, mock, report, runs, th, sessionBuf, globalBuf, lock, cur, mpc,
                  hasSession, hook, store, artifact, issued, appended, clock >>

\* generate_markdown(): scripts/generate_test_report.py runs as a subprocess
\* and ends with some status, which is dropped.
DrvMarkdown ==
  /\ DriverAt("markdown")
  /\ \E status \in {0, 1, 2} :
       drv' = [drv EXCEPT !.pc = "regression",
                          !.steps = Append(@, Step("generate_markdown", status))]
  /\ UNCHANGED << world, mock, report, junit, runs, th, sessionBuf, globalBuf, lock, cur, mpc,
                  hasSession, hook, store, artifact, issued, appended, clock >>

\* generate_regression_html(): the regression script runs as a subprocess,
\* with --pytest-html if reports/report.html exists; its status is dropped.
DrvRegression ==
  /\ DriverAt("regression")
  /\ \E args \in RegressionArgs :
       /\ runs' = [runs EXCEPT !.regression = Append(@, RegressionRun(args))]
       /\ drv' = [drv EXCEPT !.pc = "return",
                             !.steps = Append(@, Step("generate_regression_html",
                                                      RegressionRun(args).status))]
  /\ UNCHANGED << world, mock, report, junit, th, sessionBuf, globalBuf, lock, cur, mpc,
                  hasSession, hook, store, artifact, issued, appended, clock >>

\* The artifacts are listed, main returns and sys.exit takes its value.
DrvReturn ==
  /\ DriverAt("return")
  /\ drv' = [drv EXCEPT !.pc = "exited", !.exit = DriverExit(drv.code, drv.steps)]
  /\ UNCHANGED << world, mock, report, junit, runs, th, sessionBuf, globalBuf, lock, cur, mpc,
                  hasSession, hook, store, artifact, issued, appended, clock >>

\* The driver is started; reports/junit.xml is missing or left from an
\* earlier run.
InitDriver ==
  /\ world = SequentialRun
  /\ th = [t \in Threads |-> IdleThread]
  /\ sessionBuf = << >>
  /\ globalBuf = << >>
  /\ lock = {}
  /\ cur = 1
  /\ mpc = "done"
  /\ hasSession = FALSE
  /\ hook = NoHook
  /\ store = << >>
  /\ artifact = NoArtifact
  /\ issued = 0
  /\ appended = 0
  /\ clock = [resp |-> 0, app |-> 0]
  /\ report = NoReport
  /\ junit \in {NoJunit, JunitOf(<< "passed" >>)}
  /\ runs = NoRuns
  /\ drv = [NoDriver EXCEPT !.pc = "start"]
  /\ mock = NoMock

NextDriver ==
  \/ DrvRunPytest
  \/ DrvEnsureJunit
  \/ DrvMarkdown
  \/ DrvRegression
  \/ DrvReturn

SpecDriver == InitDriver /\ [][NextDriver]_vars

\* ------------------------------------------------- mock inference endpoint
\* Texts are sequences of words. The words of the complaints and domain hints
\* sent to the endpoint.
Vocabulary ==
  {"Crushing", "crushing", "chest", "CHEST", "pain", "exertional", "headache"}

Hints == {<< "cardiology" >>, << "pediatric" >>, << "Pediatric", "ICU" >>}

\* str.lower() of a word.
LowerWord(w) ==
  IF w = "Crushing" THEN "crushing"
  ELSE IF w = "CHEST" THEN "chest"
  ELSE IF w = "Pediatric" THEN "pediatric"
  ELSE IF w = "ICU" THEN "icu"
  ELSE w

\* text.lower()
Lower(text) == [i \in 1..Len(text) |-> LowerWord(text[i])]

\* `sub in word` for a lower-case word.
WordHas(word, sub) ==
  \/ word = sub
  \/ word = "exertional" /\ sub = "exert"

\* `phrase in text`: the words of the phrase follow each other in the text,
\* the last one possibly as the beginning of a longer word.
In(phrase, text) ==
  \E i \in 0..(Len(text) - Len(phrase)) :
    /\ \A k \in 1..(Len(phrase) - 1) : text[i + k] = phrase[k]
    /\ WordHas(text[i + Len(phrase)], phrase[Len(phrase)])

\* req.chief_complaint or "" / req.domain_hint or "": a field is Null or a
\* text.
OrEmpty(field) == IF field = Null THEN << >> ELSE field.v

Text(words) == [t |-> "text", v |-> words]

\* InferenceResponse(**{...}); the confidence is in hundredths.
InferenceResponse(class, confidence, feature, warnings) ==
  [class |-> class, confidence |-> confidence,
   explanations |-> << feature >>, warnings |-> warnings,
   model_version |-> "mock-fastapi-1.0"]

\* Mutant of Infer: the complaint is looked at before the domain hint.
InferComplaintFirst(req) ==
  LET text == Lower(OrEmpty(req.chief_complaint))
  IN IF In(<< "crushing", "chest", "pain" >>, text)
     THEN InferenceResponse("urgent", 95, "crushing chest pain", << << "urgent", "escalation" >> >>)
     ELSE IF In(<< "pediatric" >>, Lower(OrEmpty(req.domain_hint)))
     THEN InferenceResponse("needs_review", 40, "domain_mismatch",
            << << "out-of-distribution:", "unsupported", "domain" >>, << "needs", "review" >> >>)
     ELSE IF In(<< "chest" >>, text) \/ In(<< "exert" >>, text)
     THEN InferenceResponse("elevated_risk", 82, "chest", << >>)
     ELSE InferenceResponse("needs_review", 45, "low_signal",
            << << "low", "confidence", "needs", "review" >> >>)

\* infer(req)
Infer(req) ==
  LET text == Lower(OrEmpty(req.chief_complaint))
  IN IF OrEmpty(req.domain_hint) # << >>
        /\ In(<< "pediatric" >>, Lower(OrEmpty(req.domain_hint)))
     THEN InferenceResponse("needs_review", 40, "domain_mismatch",
            << << "out-of-distribution:", "unsupported", "domain" >>, << "needs", "review" >> >>)
     ELSE IF In(<< "crushing", "chest", "pain" >>, text)
     THEN InferenceResponse("urgent", 95, "crushing chest pain", << << "urgent", "escalation" >> >>)
     ELSE IF In(<< "chest" >>, text) \/ In(<< "exert" >>, text)
     THEN InferenceResponse("elevated_risk", 82, "chest", << >>)
     ELSE InferenceResponse("needs_review", 45, "low_signal",
            << << "low", "confidence", "needs", "review" >> >>)

\* The valid requests: a complaint of at most MaxWords words or none, a
\* domain hint or none.
InferenceRequests ==
  { [patient_id |-> "pt-A1", chief_complaint |-> c, domain_hint |-> h] :
      c \in {Null} \cup { Text(w) : w \in UNION { [1..n -> Vocabulary] : n \in 0..MaxWords } },
      h \in {Null, Text(<< >>)} \cup { Text(w) : w \in Hints } }

\* POST /v1/model/infer is answered.
Answer ==
  /\ mock.sent
  /\ ~mock.answered
  /\ mock' = [mock EXCEPT !.answered = TRUE] @@ [resp |-> Infer(mock.req)]
  /\ UNCHANGED << world, report, junit, runs, drv, th, sessionBuf, globalBuf, lock, cur, mpc,
                  hasSession, hook, store, artifact, issued, appended, clock >>

InitMock ==
  /\ world = SequentialRun
  /\ th = [t \in Threads |-> IdleThread]
  /\ sessionBuf = << >>
  /\ globalBuf = << >>
  /\ lock = {}
  /\ cur = 1
  /\ mpc = "done"
  /\ hasSession = FALSE
  /\ hook = NoHook
  /\ store = << >>
  /\ artifact = NoArtifact
  /\ issued = 0
  /\ appended = 0
  /\ clock = [resp |-> 0, app |-> 0]
  /\ report = NoReport
  /\ junit = NoJunit
  /\ runs = NoRuns
  /\ drv = NoDriver
  /\ \E req \in InferenceRequests : mock = [sent |-> TRUE, answered |-> FALSE, req |-> req]

NextMock == Answer

SpecMock == InitMock /\ [][NextMock]_vars

\* --------------------------------------- the conftest_detailed_logging plugin
\* api_call built by _tracked_post / _tracked_get: the elapsed time is not
\* rounded (kept in microseconds) and the text is cut to TextCap characters.
LoggedEntry(inp, r) ==
  ( IF inp.method = "POST"
    THEN [method |-> "POST", url |-> inp.url,
          request_payload |-> KwGet(inp.kw, "json"),
          request_data |-> KwGet(inp.kw, "data"),
          status_code |-> r.status_code,
          elapsed_seconds |-> r.elapsed_us]
    ELSE [method |-> "GET", url |-> inp.url,
          request_params |-> KwGet(inp.kw, "params"),
          status_code |-> r.status_code,
          elapsed_seconds |-> r.elapsed_us] ) @@ ResponsePart(r)

\* The patched Session.post / Session.get, called by the test body: an
\* exception of the real call propagates; a response is recorded in
\* self._captured_calls of the session object and returned.
LogCall(inp, o) ==
  /\ mpc = "running"
  /\ CurItem.phase = "call"
  /\ issued < MaxCalls
  /\ inp \in world.inputs
  /\ o \in world.outcomes
  /\ issued' = issued + 1
  /\ IF IsExc(o)
     THEN UNCHANGED << sessionBuf, clock >>
     ELSE /\ sessionBuf' = BufAppend(sessionBuf,
                 [id |-> clock.resp + 1, scope |-> "session", seq |-> clock.app + 1,
                  owner |-> cur, worker |-> FALSE, call |-> LoggedEntry(inp, o)])
          /\ clock' = [resp |-> clock.resp + 1, app |-> clock.app + 1]
  /\ UNCHANGED << world, mock, report, junit, runs, drv, th, globalBuf, lock, cur, mpc,
                  hasSession, hook, store, artifact, appended >>

\* hasattr(item, 'api_calls'): nothing in the plugin or in the tests sets the
\* attribute api_calls of a test item.
HasApiCalls(item) == FALSE

\* "api_calls": [] and, if the item has the attribute, item.api_calls.
LoggedCalls(item, n) ==
  IF HasApiCalls(item) THEN item.api_calls ELSE << >>

\* pytest_runtest_makereport of the plugin with report.when == "call":
\* test_data is built and appended to _test_details.
LogHook ==
  /\ mpc = "running"
  /\ IF CurItem.phase = "call"
     THEN store' = Append(store,
            [test_name |-> cur, outcome |-> CurItem.outcome,
             api_calls |-> LoggedCalls(CurItem, cur)] @@ FailurePart(CurItem.outcome))
     ELSE store' = store
  /\ mpc' = "teardown"
  /\ UNCHANGED << world, mock, report, junit, runs, drv, th, sessionBuf, globalBuf, lock, cur,
                  hasSession, hook, artifact, issued, appended, clock >>

\* pytest_sessionfinish of the plugin: json.dump of _test_details.
LogFinish ==
  /\ mpc = "finish"
  /\ artifact' = [written |-> TRUE, total_tests |-> Len(store),
                  tests |-> store]
  /\ mpc' = "done"
  /\ UNCHANGED << world, mock, report, junit, runs, drv, th, sessionBuf, globalBuf, lock, cur,
                  hasSession, hook, store, issued, appended, clock >>

\* A run under the plugin: the bodies of the tests call the patched methods.
NextLogging ==
  \/ \E inp \in CallInputs, o \in NetOutcomes : LogCall(inp, o)
  \/ LogHook
  \/ EndTest
  \/ LogFinish

SpecLogging == InitSeq /\ [][NextLogging]_vars

\* ------------------------------------------------------------------ helpers
Range(q) == { q[i] : i \in 1..Len(q) }

Last(q) == q[Len(q)]

\* The entries a test record holds, by position.
RecCalls(n) == store[n].api_calls

\* Every entry that exists: in a buffer, in the hook's copies, in a record.
Buffered == Range(sessionBuf) \cup Range(globalBuf)

AllItems ==
  Buffered \cup Range(hook.captured_calls) \cup Range(hook.global_calls)
    \cup UNION { Range(RecCalls(n)) : n \in 1..Len(store) }

\* The name of an entry: its call and the capture path that made it.
Name(it) == << it.id, it.scope >>

\* --------------------------------------------------------------------- C1
\* C1: every call that a worker thread issued through its own client during a
\* test and that was captured before the test's drain released the lock is in
\* that test's record exactly once and as it was built: with N workers of K
\* such calls each the record holds N*K of them, whatever the interleaving.
NoLossUnderConcurrency ==
  \A n \in 1..Len(store) :
    LET r == store[n]
        W == { j \in 1..Len(r.api_calls) :
                 /\ r.api_calls[j].worker
                 /\ r.api_calls[j].owner = r.test_name }
    IN /\ Cardinality(W) = r.seen
       /\ \A j, k \in W : j # k => r.api_calls[j].id # r.api_calls[k].id
       /\ \A j \in W :
            /\ r.api_calls[j].scope = "global"
            /\ \E i \in world.inputs, o \in Responses :
                 r.api_calls[j].call = GlobalEntry(i, o)

\* Two worker calls of one test, captured before its drain, are in its record.
C1Witness ==
  \E n \in 1..Len(store) :
    /\ store[n].seen >= 2
    /\ Cardinality({ j \in 1..Len(RecCalls(n)) : RecCalls(n)[j].worker }) >= 2

\* --------------------------------------------------------------------- C2
\* C2: every entry of the global buffer ends in the record of the test that
\* was running when its call was issued: no record holds a global entry of
\* another test, and once the artifact is written and every thread is idle no
\* global entry is left in the buffer.
GlobalEntriesAttributedToOwner ==
  /\ \A n \in 1..Len(store) : \A j \in 1..Len(RecCalls(n)) :
        RecCalls(n)[j].scope = "global" => RecCalls(n)[j].owner = store[n].test_name
  /\ (mpc = "done" /\ \A t \in Threads : th[t].pc = "idle") => globalBuf = << >>

\* --------------------------------------------------------------------- C3
\* C3: when the real call raises, the wrapper has invoked it exactly once and
\* hands that exception to the caller, for the tracked client as for any other.
ExceptionPropagatedOnce ==
  \A t \in Threads :
    (th[t].real # << >> /\ IsExc(th[t].real[1])) =>
       /\ Len(th[t].real) = 1
       /\ th[t].pc = "ret"
       /\ th[t].result = [state |-> "raised", value |-> th[t].real[1]]

\* --------------------------------------------------------------------- C4
\* The entries captured for the call thread t is in.
EntriesOf(t) == { it \in AllItems : it.id = th[t].doneAt }

\* C4: a call whose real call gave a response returns exactly that response
\* to the caller, whether or not its body decodes as JSON; each entry captured
\* for it carries the status and the decoded payload, or, when decoding
\* failed, the truncated text and no payload.
InterceptionTransparent ==
  \A t \in Threads :
    (th[t].pc = "ret" /\ ~IsExc(Last(th[t].real))) =>
       LET r == Last(th[t].real)
       IN /\ th[t].result = [state |-> "returned", value |-> r]
          /\ EntriesOf(t) # {}
          /\ \A it \in EntriesOf(t) :
               /\ it.call.status_code = r.status_code
               /\ IF JsonOk(r)
                  THEN /\ "response_text" \notin DOMAIN it.call
                       /\ it.call.response_payload = r.body
                  ELSE /\ "response_payload" \notin DOMAIN it.call
                       /\ it.call.response_text.text = r.body
                       /\ it.call.response_text.len <= TextCap

\* A call through the tracked client and a call through another client have
\* each returned a response whose body is not JSON.
C4Witness ==
  \E t \in Threads :
    /\ th[t].pc = "ret"
    /\ th[t].result.state = "returned"
    /\ ~JsonOk(th[t].result.value)
    /\ th[t].client = "tracked"
    /\ \E it \in Range(globalBuf) : "response_text" \in DOMAIN it.call

\* --------------------------------------------------------------------- C5
\* C5: a call that returned a response was captured exactly once: a call
\* through the tracked client has one entry, in the session scope, and none in
\* the global scope; a call through another client has one entry, in the
\* global scope.
CapturedOnceInOneScope ==
  \A t \in Threads :
    (th[t].pc = "ret" /\ th[t].result.state = "returned") =>
       /\ Cardinality(EntriesOf(t)) = 1
       /\ \A it \in EntriesOf(t) :
            it.scope = IF IsTracked(th[t].client) THEN "session" ELSE "global"

\* --------------------------------------------------------------------- C6
\* The entries of the record that HookBuild appends.
Claimed == Range(Last(store).api_calls)

InScope(sc, it) == it.scope = sc

IsSessionEntry(it) == InScope("session", it)

IsGlobalEntry(it) == InScope("global", it)

\* C8: a record's call list is the drained session buffer followed by the
\* drained global buffer: the hook copies each buffer whole, the record is the
\* session copy followed by the global copy, and each part is in the order in
\* which its entries were appended.
RecordIsSessionThenGlobal ==
  /\ [](\A n \in 1..Len(store) :
          /\ RecCalls(n) = SelectSeq(RecCalls(n), IsSessionEntry)
                             \o SelectSeq(RecCalls(n), IsGlobalEntry)
          /\ \A i, j \in 1..Len(RecCalls(n)) :
               (i < j /\ RecCalls(n)[i].scope = RecCalls(n)[j].scope)
                  => RecCalls(n)[i].seq < RecCalls(n)[j].seq)
  /\ [][(mpc = "running" /\ mpc' = "hook") =>
          /\ hook'.captured_calls = IF hasSession THEN sessionBuf ELSE << >>
          /\ hook'.global_calls = globalBuf]_vars
  /\ [][(mpc = "hook" /\ mpc' = "teardown") =>
          /\ Len(store') = Len(store) + 1
          /\ Last(store').api_calls = hook.captured_calls \o hook.global_calls]_vars

\* After a drain that found entries in both buffers, the record holds the
\* session entry first and the global entry second.
C8Witness ==
  /\ mpc = "teardown"
  /\ store # << >>
  /\ Len(Last(store).api_calls) = 2
  /\ Last(store).api_calls[1].scope = "session"
  /\ Last(store).api_calls[2].scope = "global"
\* --------------------------------------------------------------------- C9
\* The response body of an entry: the structured payload in normalized form,
\* or the raw text when the body was not structured.
ResponseBody(c) ==
  IF "response_payload" \in DOMAIN c THEN Dumps(c.response_payload)
  ELSE Get(c, "response_text")

\* The content of an entry: method, url, status code, normalized request body
\* and normalized response body; the elapsed time is no part of it.
Content(c) == << c.method, c.url, c.status_code, Dumps(KeyRequest(c)), ResponseBody(c) >>

\* C9: the test record written to the run artifact is deduplicated: it holds
\* no two entries with the same content, neither two captures of one call by
\* two capture paths nor two calls that differ only in elapsed time.
ArtifactDeduplicated ==
  artifact.written =>
    \A n \in 1..Len(artifact.tests) :
      \A i, j \in 1..Len(artifact.tests[n].api_calls) :
        i # j => Content(artifact.tests[n].api_calls[i])
                   # Content(artifact.tests[n].api_calls[j])

\* -------------------------------------------------------------------- C10
\* The positions of the entries of calls that no earlier entry equals in
\* content.
FirstOccurrences(calls) ==
  { i \in 1..Len(calls) : \A j \in 1..(i - 1) : Content(calls[j]) # Content(calls[i]) }

\* The entries of calls at the positions in keep, from position i on, in order.
RECURSIVE Kept(_, _, _)
Kept(calls, keep, i) ==
  IF i > Len(calls) THEN << >>
  ELSE IF i \in keep THEN << calls[i] >> \o Kept(calls, keep, i + 1)
  ELSE Kept(calls, keep, i + 1)

\* C10: the renderer's call list is the test's call list without the entries
\* that agree with an earlier one on method, url, status code, normalized
\* request body and normalized response body (payload, or raw text when the
\* body was not structured): two entries collapse exactly when they agree on
\* all five, the first is kept and the kept entries keep their order.
DedupByContentKey ==
  report.rendered =>
    \A n \in 1..Len(report.tests) :
      LET calls == artifact.tests[n].api_calls
      IN report.tests[n].deduped_calls = Kept(calls, FirstOccurrences(calls), 1)
\* -------------------------------------------------------------------- C11
\* C11: the step of the report hook that extracts the assertions never fails:
\* it always appends the record of the running test, with its name, outcome
\* and calls, and when the source of the test is unavailable or does not parse
\* the record's assertion sequence is empty.
ExtractionNeverFails ==
  [][mpc = "hook" =>
       /\ mpc' = "teardown"
       /\ Len(store') = Len(store) + 1
       /\ Last(store').test_name = cur
       /\ Last(store').outcome = CurItem.outcome
       /\ Last(store').api_calls = hook.captured_calls \o hook.global_calls
       /\ (~HasObj(CurItem.source) \/ GetSourceRaises(CurItem.source)
             \/ ParseRaises(CurItem.source)) => Last(store').assertions = << >>]_vars
\* -------------------------------------------------------------------- C12
\* The assert statements a piece of source contains, in text order.
RECURSIVE StatementsIn(_)
StatementsIn(nodes) ==
  IF nodes = << >> THEN << >>
  ELSE (IF Head(nodes).kind = "assert" THEN << Head(nodes) >>
        ELSE StatementsIn(Head(nodes).body)) \o StatementsIn(Tail(nodes))

\* The source of the test a record is of.
SourceOf(rec) == world.items[rec.test_name].source

\* The assertion records of rec are those of the M assert statements of its
\* source: as many, each condition as often as statements have it, each with
\* the condition on one line and no failure message.
OnePerStatement(rec) ==
  LET stmts == StatementsIn(<< SourceOf(rec).tree >>)
      got == rec.assertions
  IN /\ Len(got) = Len(stmts)
     /\ \A j \in 1..Len(stmts) :
          Cardinality({ i \in 1..Len(got) : got[i].condition = Unparse(stmts[j].text) })
            = Cardinality({ i \in 1..Len(stmts) :
                             Unparse(stmts[i].text) = Unparse(stmts[j].text) })
     /\ \A i \in 1..Len(got) :
          /\ DOMAIN got[i] = {"condition", "passed", "full_assertion"}
          /\ got[i].full_assertion = << Word("assert", 0) >> \o got[i].condition
          /\ \A w \in Range(got[i].condition) : w.k # "nl"

\* C12 as claimed: the record of every test function holds one assertion
\* record per assert statement of its source, nested ones included.
AssertionsComplete ==
  \A n \in 1..Len(store) : OnePerStatement(store[n])

\* C12 as amended: that holds for a test function whose source parses as
\* inspect.getsource returns it (a module-level function); for a method of a
\* class, whose text is indented and does not parse, the record holds no
\* assertion record.
AssertionsCompleteWhenParsed ==
  \A n \in 1..Len(store) :
    /\ SourceOf(store[n]).kind = "function" => OnePerStatement(store[n])
    /\ SourceOf(store[n]).kind = "method" => store[n].assertions = << >>

\* A record of a function with asserts nested in if, for and try holds all
\* four, and a record of a method holds none.
C12Witness ==
  /\ \E n \in 1..Len(store) :
       SourceOf(store[n]) = SrcNested /\ Len(store[n].assertions) = 4
  /\ \E n \in 1..Len(store) : SourceOf(store[n]) = SrcMethod
\* -------------------------------------------------------------------- C13
\* The test of the artifact that section n of the report renders.
Rendered(n) == artifact.tests[n]

CondAt(n, i) == ConditionOf(TGet(Rendered(n), "assertions", << >>)[i])

BindingsOf(n) == TGet(Rendered(n), "source_code", NoSource)

\* The positions of the bindings of the source of test n whose response
\* holder condition i mentions.
HoldersIn(n, i) ==
  { k \in 1..Len(BindingsOf(n).holders) :
      \E w \in Range(CondAt(n, i)) : w.k = "holder" /\ w.n = BindingsOf(n).holders[k].var }

\* The positions of the words of condition i that are a call variable rN.
DirectIn(n, i) == { k \in 1..Len(CondAt(n, i)) : CondAt(n, i)[k].k = "r" }

\* The positions of the call variables of the source whose name occurs inside
\* some word of condition i.
CallVarsIn(n, i) ==
  { k \in 1..Len(BindingsOf(n).call_vars) :
      \E w \in Range(CondAt(n, i)) :
        w.k \in {"r", "embed"} /\ w.n = BindingsOf(n).call_vars[k] }

Least(S) == CHOOSE x \in S : \A y \in S : x <= y

AssertionPositions(n) == 1..Len(TGet(Rendered(n), "assertions", << >>))

\* C13 as claimed: a condition that mentions a bound response holder is
\* assigned to the call that holder is bound to, also when it mentions a call
\* variable rM directly; a condition that matches no rule is unassigned.
HolderBindingWins ==
  report.rendered =>
    \A n \in 1..Len(report.tests) : \A i \in AssertionPositions(n) :
      /\ HoldersIn(n, i) # {} =>
           report.tests[n].idx_for_a[i]
             = Index(BindingsOf(n).holders[Least(HoldersIn(n, i))].idx)
      /\ (HoldersIn(n, i) = {} /\ DirectIn(n, i) = {} /\ CallVarsIn(n, i) = {}) =>
           report.tests[n].idx_for_a[i] = NoIndex

\* C13 as amended: the direct reference is checked first: a condition with a
\* word rM is assigned to call M of its first such word, whatever holders it
\* mentions; without one, a condition that mentions bound response holders is
\* assigned to the call of the first of them in binding order; without
\* either, a condition that holds the name of a bound call variable inside a
\* word is assigned to that call; a condition that matches none is unassigned.
DirectReferenceWins ==
  report.rendered =>
    \A n \in 1..Len(report.tests) : \A i \in AssertionPositions(n) :
      LET ix == report.tests[n].idx_for_a[i]
      IN /\ DirectIn(n, i) # {} => ix = Index(CondAt(n, i)[Least(DirectIn(n, i))].n)
         /\ (DirectIn(n, i) = {} /\ HoldersIn(n, i) # {}) =>
              ix = Index(BindingsOf(n).holders[Least(HoldersIn(n, i))].idx)
         /\ (DirectIn(n, i) = {} /\ HoldersIn(n, i) = {} /\ CallVarsIn(n, i) # {}) =>
              ix = Index(BindingsOf(n).call_vars[Least(CallVarsIn(n, i))])
         /\ (DirectIn(n, i) = {} /\ HoldersIn(n, i) = {} /\ CallVarsIn(n, i) = {}) =>
              ix = NoIndex

\* A rendered test has a condition that mentions a holder bound to call 1 and
\* r2 directly, assigned to call 2, and a condition that matches no rule.
C13Witness ==
  /\ report.rendered
  /\ \E n \in 1..Len(report.tests) : \E i, j \in AssertionPositions(n) :
       /\ HoldersIn(n, i) # {}
       /\ DirectIn(n, i) # {}
       /\ BindingsOf(n).holders[Least(HoldersIn(n, i))].idx = 1
       /\ report.tests[n].idx_for_a[i] = Index(2)
       /\ report.tests[n].idx_for_a[j] = NoIndex
\* -------------------------------------------------------------------- C14
\* How often a occurs in q.
Count(q, a) == Cardinality({ i \in 1..Len(q) : q[i] = a })

\* How often a occurs in the buckets of the calls.
RECURSIVE CountAssigned(_, _, _)
CountAssigned(per_call, k, a) ==
  IF k = 0 THEN 0 ELSE Count(per_call[k], a) + CountAssigned(per_call, k - 1, a)

\* The number of assertions in the buckets of the calls.
RECURSIVE Assigned(_, _)
Assigned(per_call, k) ==
  IF k = 0 THEN 0 ELSE Len(per_call[k]) + Assigned(per_call, k - 1)

\* C14: correlation drops no assertion: the buckets are those of the test's
\* calls; every assertion is in exactly one bucket, as often as the test has
\* it; an assertion whose index is none, 0 or beyond the number of calls is in
\* the unassigned bucket; assigned plus unassigned is the number of
\* assertions.
NoAssertionDropped ==
  report.rendered =>
    \A n \in 1..Len(report.tests) :
      LET all == TGet(Rendered(n), "assertions", << >>)
          ncalls == Len(TGet(Rendered(n), "api_calls", << >>))
          per_call == report.tests[n].per_call_assertions
          unassigned == report.tests[n].unassigned_assertions
          Miss(i) == \/ ~report.tests[n].idx_for_a[i].found
                     \/ report.tests[n].idx_for_a[i].idx \notin 1..ncalls
          misses == { i \in 1..Len(all) : Miss(i) }
      IN /\ DOMAIN per_call = 1..ncalls
         /\ Assigned(per_call, ncalls) + Len(unassigned) = Len(all)
         /\ \A i \in 1..Len(all) :
              CountAssigned(per_call, ncalls, all[i]) + Count(unassigned, all[i])
                = Count(all, all[i])
         /\ Len(unassigned) = Cardinality(misses)
         /\ \A i \in misses : Count(unassigned, all[i]) >= 1
         /\ \A i \in 1..Len(all) \ misses :
              Count(per_call[report.tests[n].idx_for_a[i].idx], all[i]) >= 1

\* A rendered test with one call has an assertion in the bucket of that call
\* and, in the unassigned bucket, an assertion whose index is 0 or names a
\* call beyond the last.
C14Witness ==
  /\ report.rendered
  /\ \E n \in 1..Len(report.tests) :
       /\ Len(Rendered(n).api_calls) = 1
       /\ Len(report.tests[n].per_call_assertions[1]) = 1
       /\ Len(report.tests[n].unassigned_assertions) = 1
       /\ \E i \in AssertionPositions(n) :
            /\ report.tests[n].idx_for_a[i].found
            /\ report.tests[n].idx_for_a[i].idx \in {0, 2, 3}
\* -------------------------------------------------------------------- C15
\* The hook of item cur ended with the exception of inspect.getsource.
Aborted ==
  /\ mpc \in {"finish", "done"}
  /\ CurItem.phase = "call"
  /\ GetSourceRaises(CurItem.source)

\* The test cases that finished, in the order in which they did: pytest runs
\* the items one after the other.
Finished ==
  { n \in 1..cur : (n < cur \/ mpc \in {"teardown", "finish", "done"})
                     /\ ~(n = cur /\ Aborted) }

\* C15: the store holds exactly one record for every test case that finished,
\* whatever its outcome, and the records are in the order of completion.
OneRecordPerFinishedTest ==
  /\ \A n \in Finished :
       Cardinality({ k \in 1..Len(store) : store[k].test_name = n }) = 1
  /\ Len(store) = Cardinality(Finished)
  /\ \A j, k \in 1..Len(store) : j < k => store[j].test_name < store[k].test_name

\* -------------------------------------------------------------------- C16
\* Record n of the artifact is record n of the store.
SameRecord(n) ==
  /\ artifact.tests[n].test_name = store[n].test_name
  /\ artifact.tests[n].outcome = store[n].outcome
  /\ Len(artifact.tests[n].api_calls) = Len(store[n].api_calls)
  /\ artifact.tests[n].assertions = store[n].assertions

\* C16: the artifact is written once, by the step that ends the session; no
\* record is appended after it; once written it holds every record of the
\* store, in order, and total_tests is their number; a session that has ended
\* has written it.
ArtifactWrittenOnceAtFinish ==
  [][ /\ artifact' # artifact =>
           ~artifact.written /\ artifact'.written /\ mpc = "finish" /\ mpc' = "done"
      /\ artifact.written => store' = store
      /\ artifact'.written =>
           /\ artifact'.total_tests = Len(store')
           /\ Len(artifact'.tests) = Len(store')
           /\ \A n \in 1..Len(store') :
                /\ artifact'.tests[n].test_name = store'[n].test_name
                /\ artifact'.tests[n].outcome = store'[n].outcome
                /\ Len(artifact'.tests[n].api_calls) = Len(store'[n].api_calls)
                /\ artifact'.tests[n].assertions = store'[n].assertions
      /\ mpc' = "done" => artifact'.written ]_vars

\* The artifact is written after a run in which one test left a record and
\* another, which never entered its call phase, left none.
C16Witness ==
  /\ artifact.written
  /\ mpc = "done"
  /\ cur = NumTests
  /\ artifact.total_tests = 1
  /\ Len(store) = 1
  /\ SameRecord(1)

\* -------------------------------------------------------------------- C17
\* A record of the store as the hook appended it: its fields, each call entry
\* without the history attached to it.
AsAppended(rec) ==
  [k \in DOMAIN rec \ {"seen"} |->
     IF k = "api_calls" THEN [j \in 1..Len(rec.api_calls) |-> rec.api_calls[j].call]
     ELSE rec[k]]

\* C17: the records read back from the artifact are equal, field for field,
\* to the records that were appended, metrics included.
RoundTripEqual ==
  artifact.written =>
    /\ Len(artifact.tests) = Len(store)
    /\ \A n \in 1..Len(store) : artifact.tests[n] = AsAppended(store[n])

\* -------------------------------------------------------------------- C18
\* The test of record n recorded at least one metric through the recorder.
RecordedMetrics(n) ==
  LET item == world.items[store[n].test_name]
  IN item.recorder = "used" /\ item.data # << >>

\* C18: a record has a metrics field only if its test recorded at least one
\* metric.
MetricsOnlyWhenRecorded ==
  \A n \in 1..Len(store) : "metrics" \in DOMAIN store[n] => RecordedMetrics(n)

\* -------------------------------------------------------------------- C19
\* C19: a record has a failure message if and only if its outcome is failed.
FailureDetailIffFailed ==
  \A n \in 1..Len(store) :
    "failure_message" \in DOMAIN store[n] <=> store[n].outcome = "failed"

\* The store holds a failed record with its failure message and a record of
\* another outcome without one.
C19Witness ==
  /\ \E n \in 1..Len(store) :
       store[n].outcome = "failed" /\ "failure_message" \in DOMAIN store[n]
  /\ \E n \in 1..Len(store) :
       store[n].outcome \in {"passed", "skipped"} /\ "failure_message" \notin DOMAIN store[n]

\* -------------------------------------------------------------------- C20
\* The response fields of a call entry.
ResponseFields(c) == DOMAIN c \cap {"response_payload", "response_text"}

\* C20: every call entry built from a received response, on either capture
\* path, has exactly one of response_payload, a decoded structured body, and
\* response_text, a text of at most TextCap characters.
ExactlyOneResponseField ==
  \A it \in AllItems :
    /\ Cardinality(ResponseFields(it.call)) = 1
    /\ "response_payload" \in DOMAIN it.call => it.call.response_payload.t = "dict"
    /\ "response_text" \in DOMAIN it.call =>
         /\ it.call.response_text.len <= TextCap
         /\ it.call.response_text.text.t = "str"

\* A record holds an entry with a payload and an entry whose text was cut to
\* TextCap characters, one of them from each capture path.
C20Witness ==
  \E n \in 1..Len(store) : \E a, b \in Range(RecCalls(n)) :
    /\ a.scope # b.scope
    /\ ResponseFields(a.call) = {"response_payload"}
    /\ ResponseFields(b.call) = {"response_text"}
    /\ b.call.response_text.len = TextCap

\* -------------------------------------------------------------------- C21
\* C21: the lock of the global buffer has at most one holder; the hook holds
\* it from its copy of the buffer to the clear, and in between the buffer is
\* what was copied: no append falls between the two; the holder is in no
\* network call and can always go on to release the lock, whatever the calls
\* of the other threads do.
LockOnlyAroundBufferAccess ==
  /\ Cardinality(lock) <= 1
  /\ mpc = "hook" <=> lock = {Main}
  /\ lock # {} =>
       /\ \A t \in lock : th[t].pc \notin {"net", "net2"}
       /\ hook.global_calls = globalBuf
       /\ ENABLED HookBuild
  /\ \A t \in Threads : th[t].pc = "capture" /\ lock = {} => ENABLED Capture(t)

\* The hook holds the lock over a buffer it has copied while the network call
\* of a worker thread is in flight.
C21Witness ==
  /\ lock = {Main}
  /\ globalBuf # << >>
  /\ \E t \in Workers : th[t].pc = "net"

\* -------------------------------------------------------------------- C22
\* The place of an outcome in the order of the sections.
SectionRank(outcome) ==
  IF outcome = "failed" THEN 1 ELSE IF outcome = "passed" THEN 2 ELSE 3

\* C22: the report shows every test record of the artifact exactly once, the
\* failed ones first, then the passed, then the skipped, and in the order of
\* the artifact within a section.
EveryRecordShownOnce ==
  report.rendered =>
    /\ \A n \in 1..Len(artifact.tests) : Count(report.order, n) = 1
    /\ \A i, j \in 1..Len(report.order) :
         i < j =>
           LET a == artifact.tests[report.order[i]]
               b == artifact.tests[report.order[j]]
           IN \/ SectionRank(a.outcome) < SectionRank(b.outcome)
              \/ /\ a.outcome = b.outcome
                 /\ report.order[i] < report.order[j]

\* -------------------------------------------------------------------- C23
\* The testcase elements of the export, suite after suite.
RECURSIVE AllCases(_, _)
AllCases(suites, i) ==
  IF i > Len(suites) THEN << >> ELSE suites[i].cases \o AllCases(suites, i + 1)

\* The failing cases of the export: the testcases with a failure or an error.
FailingCases ==
  SelectSeq(AllCases(junit.suites, 1), LAMBDA c : c.child \in {"failure", "error"})

\* The regression reports that were written.
RegressionReports ==
  { runs.regression[i].output : i \in { k \in 1..Len(runs.regression) :
                                          runs.regression[k].outcome = "ok" } }

\* C23: a regression report has the healthy-baseline recommendation and no
\* defect row when the export has no failing case; otherwise it has the
\* triage recommendations and one defect row for each failing case, in order,
\* with its name and its type; the healthy baseline never comes with a row.
HealthyOrDefectRows ==
  \A r \in RegressionReports :
    /\ FailingCases = << >> => r.recs = "healthy_baseline" /\ r.rows = << >>
    /\ FailingCases # << >> =>
         /\ r.recs = "triage"
         /\ Len(r.rows) = Len(FailingCases)
         /\ \A i \in 1..Len(r.rows) :
              /\ r.rows[i].name = FailingCases[i].name
              /\ r.rows[i].type = FailingCases[i].child
    /\ ~(r.recs = "healthy_baseline" /\ r.rows # << >>)

\* A report on an export whose only failing case is an error has the triage
\* recommendations and one row, of type error.
C23Witness ==
  \E r \in RegressionReports :
    /\ r.recs = "triage"
    /\ Len(r.rows) = 1
    /\ r.rows[1].type = "error"
    /\ r.counts.failures = 0

InputMissing(s) == IF s = "detailed" THEN ~artifact.written ELSE ~junit.exists

\* The path of the input file in the arguments of a run of script s.
InputPath(s, args) == IF s = "detailed" THEN args.json ELSE args.junit

\* C25: a run of either report script on a missing input ends in the
\* not-found outcome, which names the missing path and is not the outcome of
\* an exception that nothing handles, with exit status 1 and no output file.
MissingInputReported ==
  \A s \in {"detailed", "regression"} :
    \A i \in 1..Len(runs[s]) :
      InputMissing(s) =>
        /\ runs[s][i].outcome = "not_found"
        /\ runs[s][i].names = InputPath(s, runs[s][i].args)
        /\ runs[s][i].status = 1
        /\ ~runs[s][i].wrote

\* -------------------------------------------------------------------- C26
\* C26: the driver exits with the exit code of the test run it launched
\* first, whatever the statuses of the later steps; no report step has run
\* and no report script has been started before that test run has ended.
ExitMirrorsTestRun ==
  /\ DriverAt("exited") => drv.exit = drv.code
  /\ DriverAt("start") => drv.steps = << >> /\ runs = NoRuns
  /\ \A i \in 1..Len(drv.steps) :
       drv.steps[i].name = "generate_regression_html" =>
         /\ Len(runs.regression) = 1
         /\ \A k \in 1..(i - 1) : drv.steps[k].name # "generate_regression_html"

\* The driver has exited with the code of a failed test run although the
\* fallback run and the report scripts ended with other statuses.
C26Witness ==
  /\ DriverAt("exited")
  /\ drv.exit = 1
  /\ Len(drv.steps) = 3
  /\ drv.steps[1].status = 0
  /\ drv.steps[2].status = 2
  /\ drv.steps[3].status = 1

\* -------------------------------------------------------------------- C29
\* C29: the counts of a regression report add up: passed, failures, errors
\* and skipped sum to total, passed is not negative, and the defect table has
\* failures + errors rows.
CountsConsistent ==
  \A r \in RegressionReports :
    /\ r.counts.passed + r.counts.failures + r.counts.errors + r.counts.skipped
         = r.counts.total
    /\ r.counts.passed >= 0
    /\ Len(r.rows) = r.counts.failures + r.counts.errors

\* -------------------------------------------------------------------- C27
\* The complaint and the domain hint of the request, in lower case.
Complaint == Lower(OrEmpty(mock.req.chief_complaint))

DomainHint == Lower(OrEmpty(mock.req.domain_hint))

\* A warning of the response mentions urgent or escalation.
WarnsUrgent ==
  \E i \in 1..Len(mock.resp.warnings) :
    \E k \in 1..Len(mock.resp.warnings[i]) :
      mock.resp.warnings[i][k] \in {"urgent", "escalation"}

\* C27: the endpoint answers by the first rule that matches: a domain hint
\* with pediatric gives needs_review at 0.4 whatever the complaint; otherwise
\* crushing chest pain gives urgent at 0.9 or more with a warning of urgency;
\* otherwise chest or exert gives elevated_risk; otherwise needs_review at 0.5
\* or less; the confidence is in [0, 1] and the class one of the three.
FirstMatchingRule ==
  mock.answered =>
    /\ mock.resp.confidence \in 0..100
    /\ mock.resp.class \in {"urgent", "elevated_risk", "needs_review"}
    /\ IF In(<< "pediatric" >>, DomainHint)
       THEN mock.resp.class = "needs_review" /\ mock.resp.confidence = 40
       ELSE IF In(<< "crushing", "chest", "pain" >>, Complaint)
       THEN mock.resp.class = "urgent" /\ mock.resp.confidence >= 90 /\ WarnsUrgent
       ELSE IF In(<< "chest" >>, Complaint) \/ In(<< "exert" >>, Complaint)
       THEN mock.resp.class = "elevated_risk"
       ELSE mock.resp.class = "needs_review" /\ mock.resp.confidence <= 50

\* A request with a pediatric domain hint whose complaint has crushing chest
\* pain in capitals was answered with needs_review at 0.4.
C27Witness ==
  /\ mock.answered
  /\ mock.req.domain_hint = Text(<< "Pediatric", "ICU" >>)
  /\ mock.req.chief_complaint = Text(<< "Crushing", "CHEST", "pain" >>)
  /\ mock.resp.class = "needs_review"
  /\ mock.resp.confidence = 40

\* -------------------------------------------------------------------- C28
\* C28: an assertion with a condition that is correlated to call N of its
\* test is written under Call #N and under no other call, and Call #N is the
\* N-th call the test made, the one its variable rN holds.
ShownUnderItsCall ==
  report.rendered =>
    \A n \in 1..Len(report.tests) : \A i \in AssertionPositions(n) :
      LET ix == report.tests[n].idx_for_a[i]
          a == Rendered(n).assertions[i]
          calls == TGet(Rendered(n), "api_calls", << >>)
          shown == report.tests[n].shown
      IN (ix.found /\ ix.idx \in 1..Len(calls) /\ ConditionOf(a) # << >>) =>
           /\ ix.idx \in DOMAIN shown
           /\ Count(shown[ix.idx], a) = 1
           /\ \A k \in DOMAIN shown \ {ix.idx} : Count(shown[k], a) = 0
           /\ report.tests[n].deduped_calls[ix.idx] = calls[ix.idx]

\* -------------------------------------------------------------------- C30
\* Entry c of the artifact carries the details of the captured call e.
CarriesDetails(c, e) ==
  /\ c.url = e.call.url
  /\ c.status_code = e.call.status_code
  /\ Get(c, "request_payload") = Get(e.call, "request_payload")
  /\ Get(c, "response_payload") = Get(e.call, "response_payload")

\* C30: under the detailed-logging plugin, every call captured by the patched
\* post/get during a test is, with its URL, request payload, response payload
\* and status code, in the api_calls of that test in the written JSON.
CapturedCallsInJson ==
  artifact.written =>
    \A e \in Range(sessionBuf) :
      \E n \in 1..Len(artifact.tests) :
        /\ artifact.tests[n].test_name = e.owner
        /\ \E j \in 1..Len(artifact.tests[n].api_calls) :
             CarriesDetails(artifact.tests[n].api_calls[j], e)

====
